---------------------------- MODULE Spec2Model ----------------------------
(***************************************************************************)
(* A model of the Lean source parser of scripts/extract_sublemmas.py:      *)
(* the line normalizer, the block scanner, the statement/proof splitter,   *)
(* the block classifier, the all-blocks extractor, the composer            *)
(* (create_statement_with_lemmas) and the stub generator                   *)
(* (create_proof_with_sorries); of the statement tracker of                *)
(* scripts/statement_tracker.py; and of the session loop of                *)
(* scripts/runner.py (run_task, run_claude_session).                       *)
(*                                                                         *)
(* A Python str is a sequence of one-character strings; "\n" is the line   *)
(* break, and " ", "\t", "\n" are the whitespace characters.  A list is a  *)
(* sequence.  Line indices are 0-based as in the source, so line index i   *)
(* is cleaned_lines[i + 1].  Python's None is the record NoneVal where a   *)
(* record or a pair is expected and the sequence NoneStr (no character is  *)
(* "None") where a str is expected.                                        *)
(***************************************************************************)
EXTENDS Integers, Sequences, FiniteSets, TLC

VARIABLES original_code, cleaned_lines, op, args, ret,
          file_text, initial_snapshots,
          task, pc, reason, rounds, consecutive_limits, round_results,
          calls, checks, end_reason, task_result,
          tasks, parallel, max_workers, futures, results, batch_pc

\* the fields of a StatementTracker and the text of the file it tracks
tracker_vars == <<file_text, initial_snapshots>>

\* the locals of run_task and run_claude_session, the position in them (pc),
\* and the two things they act on: the agent commands run (calls) and the
\* runs of the external checker (checks)
session_vars ==
    <<task, pc, reason, rounds, consecutive_limits, round_results, calls, checks,
      end_reason, task_result>>

\* the arguments and locals of run_tasks, the state of each submitted future,
\* and the position in run_tasks (batch_pc)
batch_vars == <<tasks, parallel, max_workers, futures, results, batch_pc>>

vars ==
    <<original_code, cleaned_lines, op, args, ret, tracker_vars, session_vars, batch_vars>>

NoneVal == [none |-> TRUE]
NoneStr == <<"None">>

\* the file does not exist
NoFile == <<"NoFile">>

(***************************************************************************)
(* str primitives                                                          *)
(***************************************************************************)
NL == "\n"
TAB == "\t"
MIDDOT == "·"

IsSpace(c) == c \in {" ", TAB, NL}

\* the least element of the set S of positions; d when S is empty
Least(S, d) == IF S = {} THEN d ELSE CHOOSE j \in S : \A k \in S : j <= k

\* the greatest element of the set S of positions; d when S is empty
Greatest(S, d) == IF S = {} THEN d ELSE CHOOSE j \in S : \A k \in S : k <= j

\* the first position at or after i that holds no whitespace
SkipWs(s, i) == Least({j \in i..Len(s) : ~IsSpace(s[j])}, Len(s) + 1)

\* the last position at or before i that holds no whitespace
SkipWsBack(s, i) == Greatest({j \in 1..i : ~IsSpace(s[j])}, 0)

lstrip(s) == SubSeq(s, SkipWs(s, 1), Len(s))

rstrip(s) == SubSeq(s, 1, SkipWsBack(s, Len(s)))

strip(s) == lstrip(rstrip(s))

SkipSp(s, i) == Least({j \in i..Len(s) : s[j] # " "}, Len(s) + 1)

\* s[i-1:].startswith(p), i a 1-based position
StartsWithAt(s, p, i) ==
    /\ i + Len(p) - 1 <= Len(s)
    /\ \A k \in 1..Len(p) : s[i + k - 1] = p[k]

startswith(s, p) == StartsWithAt(s, p, 1)

\* the 1-based position of the first occurrence of p in s at or after i; 0 if none
Find(s, p, i) ==
    LET last == Len(s) - Len(p) + 1
        j == Least({k \in i..last : StartsWithAt(s, p, k)}, last + 1)
    IN  IF j > last THEN 0 ELSE j

\* p in s
contains(s, p) == Find(s, p, 1) # 0

\* s.replace(old, new, 1)
replace1(s, old, new) ==
    LET j == Find(s, old, 1)
    IN  IF j = 0 THEN s
        ELSE SubSeq(s, 1, j - 1) \o new \o SubSeq(s, j + Len(old), Len(s))

\* re.sub(old, new, s) for a literal, non-empty pattern old
RECURSIVE ReSubLit(_, _, _)
ReSubLit(s, old, new) ==
    LET j == Find(s, old, 1)
    IN  IF j = 0 THEN s
        ELSE SubSeq(s, 1, j - 1) \o new
                \o ReSubLit(SubSeq(s, j + Len(old), Len(s)), old, new)

\* s.splitlines()
RECURSIVE splitlines(_)
splitlines(s) ==
    IF s = <<>> THEN <<>>
    ELSE LET j == Find(s, <<NL>>, 1)
         IN  IF j = 0 THEN <<s>>
             ELSE <<SubSeq(s, 1, j - 1)>> \o splitlines(SubSeq(s, j + 1, Len(s)))

\* sep.join(lines)
RECURSIVE join(_, _)
join(sep, lines) ==
    IF lines = <<>> THEN <<>>
    ELSE IF Len(lines) = 1 THEN lines[1]
    ELSE lines[1] \o sep \o join(sep, Tail(lines))

SkipNonWs(s, i) == Least({j \in i..Len(s) : IsSpace(s[j])}, Len(s) + 1)

\* s.split(): the whitespace-separated tokens of s
RECURSIVE SplitFrom(_, _)
SplitFrom(s, i) ==
    LET b == SkipWs(s, i)
    IN  IF b > Len(s) THEN <<>>
        ELSE LET e == SkipNonWs(s, b)
             IN  <<SubSeq(s, b, e - 1)>> \o SplitFrom(s, e)

split(s) == SplitFrom(s, 1)

Spaces(n) == [k \in 1..n |-> " "]

(***************************************************************************)
(* The order of str values: Python compares strings by code point.         *)
(***************************************************************************)
CodePoints ==
    <<TAB, NL, " ", "!", "#", "$", "%", "&", "'", "(", ")", "*", "+", ",", "-",
      ".", "/", "0", "1", "2", "3", "4", "5", "6", "7", "8", "9", ":", ";",
      "<", "=", ">", "?", "@", "A", "B", "C", "D", "E", "F", "G", "H", "I",
      "J", "K", "L", "M", "N", "O", "P", "Q", "R", "S", "T", "U", "V", "W",
      "X", "Y", "Z", "[", "]", "^", "_", "a", "b", "c", "d", "e", "f",
      "g", "h", "i", "j", "k", "l", "m", "n", "o", "p", "q", "r", "s", "t",
      "u", "v", "w", "x", "y", "z", "{", "|", "}", "~", MIDDOT>>

ord(c) == CHOOSE k \in 1..Len(CodePoints) : CodePoints[k] = c

\* a < b on str: at the first position where they differ
StrLess(a, b) ==
    LET n == IF Len(a) < Len(b) THEN Len(a) ELSE Len(b)
        d == Least({j \in 1..n : a[j] # b[j]}, n + 1)
    IN  IF d > n THEN Len(a) < Len(b) ELSE ord(a[d]) < ord(b[d])

\* a sort of S that puts the greatest str first
RECURSIVE sorted_descending(_)
sorted_descending(S) ==
    IF S = {} THEN <<>>
    ELSE LET m == CHOOSE x \in S : \A y \in S \ {x} : StrLess(y, x)
         IN  <<m>> \o sorted_descending(S \ {m})

\* sorted(S) for a set S of str
RECURSIVE sorted(_)
sorted(S) ==
    IF S = {} THEN <<>>
    ELSE LET m == CHOOSE x \in S : \A y \in S \ {x} : StrLess(x, y)
         IN  <<m>> \o sorted(S \ {m})

(***************************************************************************)
(* LeanCodeParser                                                          *)
(***************************************************************************)
DOT_KEYS == << <<".">>, <<MIDDOT>> >>

InList(x, l) == \E k \in 1..Len(l) : l[k] = x

ASSIGN == <<":", "=">>

\* LeanCodeParser.formatting: four re.sub passes over the whole text
formatting(code) ==
    LET r1 == ReSubLit(code, ASSIGN, <<" ">> \o ASSIGN \o <<" ">>)
        r2 == ReSubLit(r1, <<" ", " ">> \o ASSIGN, <<" ">> \o ASSIGN)
        r3 == ReSubLit(r2, ASSIGN \o <<" ", " ">>, ASSIGN \o <<" ">>)
        r4 == ReSubLit(r3, ASSIGN \o <<" ", NL>>, ASSIGN \o <<NL>>)
    IN  r4

\* one alternative of the strip_brackets pattern tried after its opening
\* bracket, from position j: the position after the closing bracket, 0 when
\* the alternative does not match
BracketClose(s, j, opening, closing) ==
    LET e == Least({k \in j..Len(s) : s[k] = opening \/ s[k] = closing}, Len(s) + 1)
    IN  IF e > Len(s) \/ s[e] = opening THEN 0 ELSE e + 1

\* the position after the match of the strip_brackets pattern at position i,
\* 0 when it does not match there
BracketMatch(s, i) ==
    IF s[i] = "(" THEN BracketClose(s, i + 1, "(", ")")
    ELSE IF s[i] = "{" THEN BracketClose(s, i + 1, "{", "}")
    ELSE IF s[i] = "[" THEN BracketClose(s, i + 1, "[", "]")
    ELSE 0

\* re.sub(pattern, "", code) from position i: the text up to the next match
\* is kept, the match is dropped, the scan goes on after it
RECURSIVE StripBracketsFrom(_, _)
StripBracketsFrom(s, i) ==
    LET m == Least({k \in i..Len(s) : BracketMatch(s, k) # 0}, Len(s) + 1)
    IN  IF m > Len(s) THEN SubSeq(s, i, Len(s))
        ELSE SubSeq(s, i, m - 1) \o StripBracketsFrom(s, BracketMatch(s, m))

\* a strip_brackets that removes nothing
KeepBrackets(code) == code

\* LeanCodeParser.strip_brackets
strip_brackets(code) == StripBracketsFrom(code, 1)

\* the end of the block comment opened before position k: the position after
\* the first "--/" or "-/" at or after k, 0 when there is none
CommentEnd(s, k) ==
    LET e == Least({j \in k..Len(s) : StartsWithAt(s, <<"-", "-", "/">>, j)
                                         \/ StartsWithAt(s, <<"-", "/">>, j)},
                   Len(s) + 1)
    IN  IF e > Len(s) THEN 0
        ELSE IF StartsWithAt(s, <<"-", "-", "/">>, e) THEN e + 3
        ELSE e + 2

\* re.sub(r"/-.*?(--/|-/)", "", code, flags=re.DOTALL) from position i
RECURSIVE StripBlockComments(_, _)
StripBlockComments(s, i) ==
    LET m == Least({k \in i..Len(s) : StartsWithAt(s, <<"/", "-">>, k)
                                         /\ CommentEnd(s, k + 2) # 0},
                   Len(s) + 1)
    IN  IF m > Len(s) THEN SubSeq(s, i, Len(s))
        ELSE SubSeq(s, i, m - 1) \o StripBlockComments(s, CommentEnd(s, m + 2))

\* re.split(r"--", line, maxsplit=1)[0]
BeforeLineComment(line) ==
    LET j == Find(line, <<"-", "-">>, 1)
    IN  IF j = 0 THEN line ELSE SubSeq(line, 1, j - 1)

\* a bullet split that leaves the continuation line at the bullet's own
\* indentation
DotLinesSameIndent(indent, noind_stripped) ==
    <<Spaces(indent) \o <<".">>,
      Spaces(indent) \o SubSeq(noind_stripped, 3, Len(noind_stripped))>>

\* dot_line and rest_line of strip_comments_and_blank_lines: the lines a line
\* that starts with a bullet marker and a space appends to cleaned
DotLines(indent, noind_stripped) ==
    IF strip(Spaces(indent + 2) \o SubSeq(noind_stripped, 3, Len(noind_stripped))) # <<>>
    THEN <<Spaces(indent) \o <<".">>,
           Spaces(indent + 2) \o SubSeq(noind_stripped, 3, Len(noind_stripped))>>
    ELSE <<Spaces(indent) \o <<".">>>>

\* the body of the loop of strip_comments_and_blank_lines: the lines one
\* line of the formatted text appends to cleaned
NormalizeLine(line) ==
    LET stripped_line == rstrip(BeforeLineComment(line))
        noind_stripped == lstrip(stripped_line)
        indent == Len(stripped_line) - Len(noind_stripped)
    IN  IF strip(stripped_line) = <<>> THEN <<>>
        ELSE IF startswith(noind_stripped, <<".", " ">>)
                \/ startswith(noind_stripped, <<MIDDOT, " ">>)
             THEN DotLines(indent, noind_stripped)
        ELSE <<stripped_line>>

RECURSIVE NormalizeLines(_)
NormalizeLines(lines) ==
    IF lines = <<>> THEN <<>>
    ELSE NormalizeLine(lines[1]) \o NormalizeLines(Tail(lines))

\* LeanCodeParser.strip_comments_and_blank_lines
strip_comments_and_blank_lines(code) ==
    NormalizeLines(splitlines(formatting(StripBlockComments(code, 1))))

\* LeanCodeParser.get_indent
get_indent(line) == SkipSp(line, 1) - 1

\* a scan that stops at the first ":=" whatever the depth counters hold
ScanFirstAssign(code, i0, paren_count, bracket_count, brace_count) ==
    Find(code, ASSIGN, i0)

\* the scan of extract_statement_and_proof_from_code from position i with the
\* three depth counters: the position of the first ":=" met while all the
\* counters are 0, 0 when the scan reaches the end of the text
\* The loop advances over every character that is neither a bracket nor the
\* ":" of a ":=" without changing a counter, so the scan steps from one such
\* character to the next.
RECURSIVE ScanAssign(_, _, _, _, _)
ScanAssign(code, i0, paren_count, bracket_count, brace_count) ==
    LET i == Least({k \in i0..Len(code) :
                       \/ code[k] \in {"(", "[", "{", ")", "]", "}"}
                       \/ code[k] = ":" /\ k + 1 <= Len(code) /\ code[k + 1] = "="},
                   Len(code) + 1)
        char == code[i]
    IN  IF i > Len(code) THEN 0
        ELSE IF char = "(" THEN ScanAssign(code, i + 1, paren_count + 1, bracket_count, brace_count)
        ELSE IF char = "[" THEN ScanAssign(code, i + 1, paren_count, bracket_count + 1, brace_count)
        ELSE IF char = "{" THEN ScanAssign(code, i + 1, paren_count, bracket_count, brace_count + 1)
        ELSE IF char = ")" THEN ScanAssign(code, i + 1, paren_count - 1, bracket_count, brace_count)
        ELSE IF char = "]" THEN ScanAssign(code, i + 1, paren_count, bracket_count - 1, brace_count)
        ELSE IF char = "}" THEN ScanAssign(code, i + 1, paren_count, bracket_count, brace_count - 1)
        ELSE IF paren_count = 0 /\ bracket_count = 0 /\ brace_count = 0 THEN i
        ELSE ScanAssign(code, i + 1, paren_count, bracket_count, brace_count)

\* the pair (code[:i].strip(), code[i + 2:].strip()) for the ":=" at position i
SplitAt(code, i) ==
    [statement |-> strip(SubSeq(code, 1, i - 1)),
     proof |-> strip(SubSeq(code, i + 2, Len(code)))]

\* a splitter without the fallback: no split when the scan finds no ":="
SplitOrNone(code) ==
    IF ScanAssign(code, 1, 0, 0, 0) = 0 THEN NoneVal
    ELSE SplitAt(code, ScanAssign(code, 1, 0, 0, 0))

\* LeanCodeParser.extract_statement_and_proof_from_code
extract_statement_and_proof_from_code(code) ==
    IF ~contains(code, ASSIGN) THEN NoneVal
    ELSE LET i == ScanAssign(code, 1, 0, 0, 0)
         IN  IF i # 0 THEN SplitAt(code, i)
             ELSE SplitAt(code, Find(code, ASSIGN, 1))

\* a name pattern that forgets the curly bracket: [^ :\[\(]
NameStopNoBrace == {" ", ":", "[", "("}

\* the characters the name pattern [^ :\{\[\(] excludes
NameStop == {" ", ":", "{", "[", "("}

SkipName(s, i) == Least({j \in i..Len(s) : s[j] \in NameStop}, Len(s) + 1)

THIS == <<"t", "h", "i", "s">>

\* LeanCodeParser.extract_name_from_code, with default = "this"
extract_name_from_code(code0, key) ==
    LET code == strip(code0)
        rest == strip(SubSeq(code, Len(key) + 1, Len(code)))
        e == SkipName(rest, 1)
    IN  IF ~startswith(code, key \o <<" ">>) THEN NoneStr
        ELSE IF startswith(rest, <<":">>) \/ startswith(rest, <<"(">>)
                \/ startswith(rest, ASSIGN)
             THEN THIS
        ELSE IF e > 1 THEN SubSeq(rest, 1, e - 1)
        ELSE NoneStr

SORRY == <<"s", "o", "r", "r", "y">>
BY_TOKEN == <<"b", "y">>

\* the last line break of s before position w; 0 when there is none
LastNLBefore(s, w) == Greatest({j \in 1..(w - 1) : s[j] = NL}, 0)

\* the two re.sub calls and the measure of parse_block's inner_indent:
\* drop the first line of the proof, drop the leading blank lines, count
\* the leading whitespace of what remains
MeasuredIndent(proof) ==
    LET n == Find(proof, <<NL>>, 1)
        r == IF n = 0 THEN <<>> ELSE SubSeq(proof, n, Len(proof))
        w == SkipWs(r, 1)
    IN  (w - 1) - LastNLBefore(r, w)

\* the proof_style expression of parse_block
ProofStyle(proof, key) ==
    IF startswith(proof, BY_TOKEN) THEN "tactic"
    ELSE IF InList(key, DOT_KEYS) THEN "dot_block"
    ELSE IF proof # <<>> THEN "term"
    ELSE "unknown"

\* an inner_indent that is always the default
InnerIndentDefault(measured, first_line) == get_indent(first_line) + 2

\* the inner_indent of parse_block from the measured indentation
InnerIndent(measured, first_line) ==
    IF measured <= 0 THEN get_indent(first_line) + 2 ELSE measured

\* the record parse_block returns
BlockInfo(lines, key, raw, name, statement, proof) ==
    [name |-> name,
     statement |-> statement,
     proof |-> proof,
     with_sorry |-> InList(SORRY, split(raw)),
     proof_style |-> ProofStyle(proof, key),
     inner_indent |-> InnerIndent(MeasuredIndent(proof), lines[1])]

\* the else branch of parse_block: sp is what the splitter returned for raw
ParseDeclaration(lines, key, raw, sp) ==
    BlockInfo(lines, key, raw, extract_name_from_code(lines[1], key),
              IF sp = NoneVal THEN <<>> ELSE sp.statement,
              IF sp = NoneVal THEN <<>> ELSE sp.proof)

\* parse_block on raw = "\n".join(lines)
ParseRaw(lines, key, raw) ==
    IF InList(key, DOT_KEYS)
    THEN BlockInfo(lines, key, raw, <<".">>, <<".">>, lstrip(Tail(lstrip(raw))))
    ELSE ParseDeclaration(lines, key, raw, extract_statement_and_proof_from_code(raw))

\* LeanCodeParser.parse_block
parse_block(lines, key) == ParseRaw(lines, key, join(<<NL>>, lines))

\* the while loop of get_block_from_lid from line index i: the pair of the
\* final i and block_lines
RECURSIVE ScanBlock(_, _, _, _, _)
\* one iteration of that loop on the line at index i
ScanLine(cl, i, block_lines, start_indent, key, line, line_indent) ==
    IF line_indent > start_indent
    THEN ScanBlock(cl, i + 1, Append(block_lines, line), start_indent, key)
    ELSE IF strip(line) = <<>>
    THEN ScanBlock(cl, i + 1, block_lines, start_indent, key)
    ELSE IF line_indent = start_indent
    THEN IF InList(key, DOT_KEYS) THEN <<i, block_lines>>
         ELSE IF ~contains(strip_brackets(join(<<NL>>, block_lines)), ASSIGN)
         THEN ScanBlock(cl, i + 1, Append(block_lines, line), start_indent, key)
         ELSE <<i, block_lines>>
    ELSE <<i, block_lines>>

ScanBlock(cl, i, block_lines, start_indent, key) ==
    IF i >= Len(cl) THEN <<i, block_lines>>
    ELSE ScanLine(cl, i, block_lines, start_indent, key, cl[i + 1], get_indent(cl[i + 1]))

\* a record whose end is the index at which the loop stopped
MakeBlockEndAtStop(start_line_index, start_indent, key, scan) ==
    [start |-> start_line_index,
     end |-> scan[1],
     lines |-> scan[2],
     indent |-> start_indent,
     key |-> key,
     info |-> parse_block(scan[2], key)]

\* the record get_block_from_lid returns, from the loop's final i and block_lines
MakeBlock(start_line_index, start_indent, key, scan) ==
    [start |-> start_line_index,
     end |-> scan[1] - 1,
     lines |-> scan[2],
     indent |-> start_indent,
     key |-> key,
     info |-> parse_block(scan[2], key)]

\* get_block_from_lid once key and start_indent are read off the start line
BlockAt(cl, start_line_index, keys, start_line, key, start_indent) ==
    IF ~InList(key, keys) THEN NoneVal
    ELSE MakeBlock(start_line_index, start_indent, key,
                   ScanBlock(cl, start_line_index + 1, <<start_line>>, start_indent, key))

\* LeanCodeParser.get_block_from_lid on the normalized lines cl
get_block_from_lid(cl, start_line_index, keys) ==
    IF start_line_index >= Len(cl) THEN NoneVal
    ELSE BlockAt(cl, start_line_index, keys, cl[start_line_index + 1],
                 split(cl[start_line_index + 1])[1], get_indent(cl[start_line_index + 1]))

\* a scan that resumes at the line after the block's first line whatever
\* allow_overlap says
ResumeAtNextLine(block, i, allow_overlap) == i + 1

\* where the scan of extract_all_blocks resumes after keeping a block found
\* at line index i
ResumeAfter(block, i, allow_overlap) ==
    IF allow_overlap THEN i + 1 ELSE block.end + 1

\* the filter of extract_all_blocks
KeepBlock(block, min_proof_lines, max_proof_lines) ==
    /\ block # NoneVal
    /\ min_proof_lines <= Len(splitlines(block.info.proof))
    /\ Len(splitlines(block.info.proof)) <= max_proof_lines

RECURSIVE ExtractFrom(_, _, _, _, _, _)
\* one iteration of the while loop of extract_all_blocks at line index i
ExtractStep(cl, i, keys, allow_overlap, min_proof_lines, max_proof_lines, block) ==
    IF KeepBlock(block, min_proof_lines, max_proof_lines)
    THEN <<block>> \o ExtractFrom(cl, ResumeAfter(block, i, allow_overlap), keys,
                                  allow_overlap, min_proof_lines, max_proof_lines)
    ELSE ExtractFrom(cl, i + 1, keys, allow_overlap, min_proof_lines, max_proof_lines)

\* the while loop of extract_all_blocks from line index i
ExtractFrom(cl, i, keys, allow_overlap, min_proof_lines, max_proof_lines) ==
    IF i >= Len(cl) THEN <<>>
    ELSE ExtractStep(cl, i, keys, allow_overlap, min_proof_lines, max_proof_lines,
                     get_block_from_lid(cl, i, keys))

\* LeanCodeParser.extract_all_blocks on the normalized lines cl
extract_all_blocks(cl, keys, allow_overlap, min_proof_lines, max_proof_lines) ==
    ExtractFrom(cl, 0, keys, allow_overlap, min_proof_lines, max_proof_lines)

KW_import == <<"i", "m", "p", "o", "r", "t">>
KW_open == <<"o", "p", "e", "n">>
KW_set_option == <<"s", "e", "t", "_", "o", "p", "t", "i", "o", "n">>
KW_scoped == <<"s", "c", "o", "p", "e", "d">>
KW_theorem == <<"t", "h", "e", "o", "r", "e", "m">>
KW_lemma == <<"l", "e", "m", "m", "a">>
KW_have == <<"h", "a", "v", "e">>
KW_replace == <<"r", "e", "p", "l", "a", "c", "e">>

\* the default keys of the composer and of extract_other
DeclKeys == <<KW_theorem, KW_lemma>>

\* the assert statement failed: the call raised AssertionError
AssertionError == <<"AssertionError">>

\* LeanCodeParser.get_theorem_name, with default = "this"
get_theorem_name(code) ==
    IF ~(startswith(code, KW_theorem) \/ startswith(code, KW_lemma))
    THEN AssertionError
    ELSE IF startswith(code, KW_theorem)
         THEN extract_name_from_code(code, KW_theorem)
         ELSE extract_name_from_code(code, KW_lemma)

\* list.remove(x): drops the first occurrence of x
RECURSIVE RemoveFirst(_, _)
RemoveFirst(l, x) ==
    IF l = <<>> THEN <<>>
    ELSE IF l[1] = x THEN Tail(l)
    ELSE <<l[1]>> \o RemoveFirst(Tail(l), x)

\* the loop of extract_headers over the lines from position k
RECURSIVE HeaderScan(_, _, _)
HeaderScan(cl, k, h) ==
    IF k > Len(cl) THEN h
    ELSE LET line == cl[k]
             tokens == split(line)
             key == tokens[1]
         IN  IF key = KW_import
             THEN HeaderScan(cl, k + 1, [h EXCEPT !.import_list = @ \o Tail(tokens),
                                                  !.import_lines = Append(@, line)])
             ELSE IF key = KW_open
             THEN HeaderScan(cl, k + 1, [h EXCEPT !.open_list = @ \o Tail(tokens),
                                                  !.open_lines = Append(@, line)])
             ELSE IF key = KW_set_option
             THEN HeaderScan(cl, k + 1, [h EXCEPT !.set_option_list = Append(@, line),
                                                  !.set_option_lines = Append(@, line)])
             ELSE HeaderScan(cl, k + 1, h)

\* LeanCodeParser.extract_headers on the normalized lines cl
extract_headers(cl) ==
    LET h == HeaderScan(cl, 1, [import_list |-> <<>>, open_list |-> <<>>,
                                set_option_list |-> <<>>, import_lines |-> <<>>,
                                open_lines |-> <<>>, set_option_lines |-> <<>>])
    IN  IF InList(KW_scoped, h.open_list)
        THEN [h EXCEPT !.open_list = RemoveFirst(@, KW_scoped)]
        ELSE h

\* the for loop of extract_other over line indices from lid, with the pointer
\* current_bid into the block ranges: the lines outside every range
RECURSIVE OutsideBlocks(_, _, _, _)
OutsideBlocks(cl, blocks, lid, current_bid) ==
    IF lid >= Len(cl) THEN <<>>
    ELSE IF current_bid < Len(blocks) /\ lid > blocks[current_bid + 1].end
         THEN OutsideBlocks(cl, blocks, lid, current_bid + 1)
    ELSE LET is_in_block == /\ current_bid < Len(blocks)
                            /\ blocks[current_bid + 1].start <= lid
                            /\ lid <= blocks[current_bid + 1].end
         IN  (IF is_in_block THEN <<>> ELSE <<cl[lid + 1]>>)
                \o OutsideBlocks(cl, blocks, lid + 1, current_bid)

ExceptPrefixes == <<KW_import, KW_open, KW_set_option>>

RECURSIVE DropPrefixed(_)
DropPrefixed(lines) ==
    IF lines = <<>> THEN <<>>
    ELSE (IF \E k \in 1..Len(ExceptPrefixes) : startswith(strip(lines[1]), ExceptPrefixes[k])
          THEN <<>> ELSE <<lines[1]>>) \o DropPrefixed(Tail(lines))

\* extract_other once the declaration blocks are extracted
OtherOf(cl, blocks) ==
    strip(join(<<NL>>, DropPrefixed(IF blocks = <<>> THEN cl
                                    ELSE OutsideBlocks(cl, blocks, 0, 0))))

\* LeanCodeParser.extract_other with its default arguments
extract_other(cl) == OtherOf(cl, extract_all_blocks(cl, DeclKeys, FALSE, 0, 10000))

SeqToSet(l) == {l[k] : k \in 1..Len(l)}

\* raw.replace("theorem ", "lemma ", 1) of the composer
RewriteKeyword(raw) == replace1(raw, KW_theorem \o <<" ">>, KW_lemma \o <<" ">>)

RawBlocks(blocks) == [k \in 1..Len(blocks) |-> join(<<NL>>, blocks[k].lines)]

\* what the composer takes from one parsed snippet: the headers, the "other"
\* code and the text of the declaration blocks
PartsOf(cl, blocks) ==
    [headers |-> extract_headers(cl),
     other |-> OtherOf(cl, blocks),
     raws |-> RawBlocks(blocks)]

ParsedParts(cl) == PartsOf(cl, extract_all_blocks(cl, DeclKeys, FALSE, 0, 10000))

\* the parse of one snippet in create_statement_with_lemmas
SnippetParts(code) == ParsedParts(strip_comments_and_blank_lines(code))

RECURSIVE Flatten(_)
Flatten(ll) == IF ll = <<>> THEN <<>> ELSE ll[1] \o Flatten(Tail(ll))

\* the final_lemma_codes of create_statement_with_lemmas
LemmaCodes(parts) ==
    Flatten([k \in 1..Len(parts) |->
                [j \in 1..Len(parts[k].raws) |-> RewriteKeyword(parts[k].raws[j])]])

\* the concatenation of prefix + x + suffix over the list l
RECURSIVE Emit(_, _, _)
Emit(l, prefix, suffix) ==
    IF l = <<>> THEN <<>>
    ELSE prefix \o l[1] \o suffix \o Emit(Tail(l), prefix, suffix)

StripAll(l) == [k \in 1..Len(l) |-> strip(l[k])]

\* the text create_statement_with_lemmas assembles from the final sets and lists
FinalCode(import_set, set_option_set, open_set, other_set, lemma_codes, main_codes) ==
    Emit(sorted(import_set), KW_import \o <<" ">>, <<NL>>)
    \o <<NL>>
    \o (IF set_option_set # {}
        THEN Emit(StripAll(sorted(set_option_set)), <<>>, <<NL>>) \o <<NL>>
        ELSE <<>>)
    \o (IF open_set # {}
        THEN KW_open \o Emit(sorted(open_set), <<" ">>, <<>>) \o <<NL>>
        ELSE <<>>)
    \o (IF other_set # {}
        THEN <<NL>> \o Emit(sorted(other_set), <<>>, <<NL, NL>>)
        ELSE <<>>)
    \o <<NL>>
    \o Emit(lemma_codes, <<>>, <<NL, NL>>)
    \o <<NL>>
    \o Emit(main_codes, <<>>, <<NL, NL>>)

\* final sets that take in the main snippet and the first lemma snippet only
FinalSetsOfFirstLemma(all) ==
    [import_set |-> UNION {SeqToSet(all[k].headers.import_list) : k \in 1..Len(all) \cap 1..2},
     open_set |-> UNION {SeqToSet(all[k].headers.open_list) : k \in 1..Len(all) \cap 1..2},
     set_option_set |->
         UNION {SeqToSet(all[k].headers.set_option_list) : k \in 1..Len(all) \cap 1..2},
     other_set |-> {all[k].other : k \in {j \in 1..Len(all) \cap 1..2 : all[j].other # <<>>}}]

\* the union of the final sets over the main snippet and the lemma snippets
FinalSets(all) ==
    [import_set |-> UNION {SeqToSet(all[k].headers.import_list) : k \in 1..Len(all)},
     open_set |-> UNION {SeqToSet(all[k].headers.open_list) : k \in 1..Len(all)},
     set_option_set |-> UNION {SeqToSet(all[k].headers.set_option_list) : k \in 1..Len(all)},
     other_set |-> {all[k].other : k \in {j \in 1..Len(all) : all[j].other # <<>>}}]

ComposeFrom(sets, lemma_codes, main_codes) ==
    <<FinalCode(sets.import_set, sets.set_option_set, sets.open_set, sets.other_set,
                lemma_codes, main_codes),
      lemma_codes>>

ComposeParts(main, parts) ==
    ComposeFrom(FinalSets(<<main>> \o parts), LemmaCodes(parts), main.raws)

\* create_statement_with_lemmas: the pair (final_code, final_lemma_codes)
create_statement_with_lemmas(original_statement, lemmas) ==
    ComposeParts(SnippetParts(original_statement),
                 [k \in 1..Len(lemmas) |-> SnippetParts(lemmas[k])])

\* the replacement text gen_one_sorry_of_block picks for a block
SorryFor(blockinfo) ==
    IF blockinfo.proof_style = "tactic" THEN BY_TOKEN \o <<" ">> \o SORRY ELSE SORRY

\* gen_one_sorry_of_block
ReplaceBlock(original_cleaned, blockinfo, raw_block) ==
    replace1(original_cleaned, raw_block,
             replace1(raw_block, blockinfo.proof, SorryFor(blockinfo)))

gen_one_sorry_of_block(original_cleaned, block_to_replace) ==
    ReplaceBlock(original_cleaned, block_to_replace.info,
                 join(<<NL>>, block_to_replace.lines))

Span(block) == block.end - block.start

\* sorted(blocks, key=end - start, reverse=True): stable, largest span first
RECURSIVE SortBySpanDesc(_)
SortBySpanDesc(blocks) ==
    IF blocks = <<>> THEN <<>>
    ELSE LET k == CHOOSE k \in 1..Len(blocks) :
                    /\ \A j \in 1..Len(blocks) : Span(blocks[j]) <= Span(blocks[k])
                    /\ \A j \in 1..(k - 1) : Span(blocks[j]) < Span(blocks[k])
         IN  <<blocks[k]>>
                \o SortBySpanDesc(SubSeq(blocks, 1, k - 1) \o SubSeq(blocks, k + 1, Len(blocks)))

RECURSIVE StubAll(_, _)
StubAll(raw_cleaned, blocks) ==
    IF blocks = <<>> THEN raw_cleaned
    ELSE StubAll(gen_one_sorry_of_block(raw_cleaned, blocks[1]), Tail(blocks))

\* the blocks create_proof_with_sorries selects, in the order it stubs them
\* blocks[:max_sorry_cnt]
Capped(blocks, max_sorry_cnt) ==
    SubSeq(blocks, 1, IF max_sorry_cnt < Len(blocks) THEN max_sorry_cnt ELSE Len(blocks))

SelectedBlocks(cl, keys, max_sorry_cnt, min_proof_lines, max_proof_lines) ==
    Capped(SortBySpanDesc(extract_all_blocks(cl, keys, FALSE,
                                             min_proof_lines, max_proof_lines)),
           max_sorry_cnt)

\* create_proof_with_sorries
\* create_proof_with_sorries on the normalized lines cl of its parser
StubLines(cl, keys, max_sorry_cnt, min_proof_lines, max_proof_lines) ==
    StubAll(join(<<NL>>, cl),
            SelectedBlocks(cl, keys, max_sorry_cnt, min_proof_lines, max_proof_lines))

create_proof_with_sorries(original_statement, keys, max_sorry_cnt, min_proof_lines, max_proof_lines) ==
    StubLines(strip_comments_and_blank_lines(original_statement), keys, max_sorry_cnt,
              min_proof_lines, max_proof_lines)

\* the result lines of add_newlines_before_keys: an empty line before every
\* line that starts with one of the keys
RECURSIVE NewlinesBefore(_, _)
NewlinesBefore(lines, keys) ==
    IF lines = <<>> THEN <<>>
    ELSE (IF \E k \in 1..Len(keys) : startswith(lines[1], keys[k])
          THEN <<<<>>, lines[1]>> ELSE <<lines[1]>>)
         \o NewlinesBefore(Tail(lines), keys)

add_newlines_before_keys(code, keys) == join(<<NL>>, NewlinesBefore(splitlines(code), keys))

\* the subscript [1] of a list with fewer than two elements raised IndexError
IndexError == <<"IndexError">>

\* the import line is dropped: its package name starts with one of the prefixes
DropsImport(package_name, prefixes) ==
    \E k \in 1..Len(prefixes) : startswith(package_name, prefixes[k])

\* the result lines of remove_imports; IndexError when line.split()[1] raised
RECURSIVE ImportsRemoved(_, _, _)
ImportsRemoved(lines, prefixes, result_lines) ==
    IF lines = <<>> THEN result_lines
    ELSE IF ~startswith(lines[1], KW_import)
    THEN ImportsRemoved(Tail(lines), prefixes, Append(result_lines, lines[1]))
    ELSE IF Len(split(lines[1])) < 2 THEN IndexError
    ELSE IF DropsImport(split(lines[1])[2], prefixes)
    THEN ImportsRemoved(Tail(lines), prefixes, result_lines)
    ELSE ImportsRemoved(Tail(lines), prefixes, Append(result_lines, lines[1]))

\* the return statement of remove_imports
JoinedOrRaised(result_lines) ==
    IF result_lines = IndexError THEN IndexError ELSE join(<<NL>>, result_lines)

remove_imports(code, prefixes) ==
    JoinedOrRaised(ImportsRemoved(splitlines(code), prefixes, <<>>))

(***************************************************************************)
(* StatementTracker                                                        *)
(***************************************************************************)
\* a dict with no key
EmptyDict == [n \in {} |-> <<>>]

\* dict.get(name, default)
DictGet(d, name, default) == IF name \in DOMAIN d THEN d[name] ELSE default

\* the blocks extract_statements_from_file keeps: those with a name
NamedBlocks(blocks) == {k \in 1..Len(blocks) : blocks[k].info.name # NoneStr}

\* the dict built by the loop of extract_statements_from_file: a later block
\* of the same name overwrites the earlier one
StatementsOf(blocks) ==
    [n \in {blocks[k].info.name : k \in NamedBlocks(blocks)} |->
        blocks[Greatest({k \in NamedBlocks(blocks) : blocks[k].info.name = n}, 0)]
            .info.statement]

\* extract_statements_from_file on the text of the file; NoFile when the
\* file does not exist
extract_statements_from_file(text) ==
    IF text = NoFile THEN EmptyDict
    ELSE StatementsOf(extract_all_blocks(strip_comments_and_blank_lines(text),
                                         DeclKeys, FALSE, 0, 10000))

normalize_statement(statement) == join(<<" ">>, split(statement))

\* the StatementChange that check appends for a name
StatementChange(name, orig, curr) ==
    [name |-> name, original |-> orig, current |-> curr,
     change_type |-> IF orig = <<>> THEN "added"
                     ELSE IF curr = <<>> THEN "removed"
                     ELSE "modified"]

\* the names for which check appends a change
ChangedNames(initial, current) ==
    {name \in DOMAIN initial \cup DOMAIN current :
        normalize_statement(DictGet(initial, name, <<>>))
            # normalize_statement(DictGet(current, name, <<>>))}

\* the changes StatementTracker.check appends for one file
ChangesOf(initial, current) ==
    {StatementChange(name, DictGet(initial, name, <<>>), DictGet(current, name, <<>>)) :
        name \in ChangedNames(initial, current)}

\* the lists check can return: it walks a set of names, whose iteration
\* order is not fixed
ChangeLists(changes) ==
    {l \in [1..Cardinality(changes) -> changes] :
        \A j, k \in 1..Cardinality(changes) : j # k => l[j] # l[k]}

(***************************************************************************)
(* run_task and run_claude_session                                         *)
(***************************************************************************)
\* no END_REASON line in the output of the agent: reason is None
NoMarker == "None"

\* what PAT_REASON finds in the output of one agent run
Markers == {"LIMIT", "COMPLETE", "SELECTED_TARGET_COMPLETE", NoMarker}

\* what check_lean_files_parallel finds over the files: an error in some
\* file, no error but a sorry warning in some file, or neither
CheckOutcomes == {"error", "sorry", "clean"}

\* a verification that never passes
AlwaysErrors(outcome, allow_sorry) == TRUE

\* the errors list of the verification is not empty
HasErrors(outcome, allow_sorry) ==
    outcome = "error" \/ (~allow_sorry /\ outcome = "sorry")

\* a loop head that stops only after one round more than max_rounds
PastMaxRounds(n, max_rounds) == n > max_rounds

\* rounds >= max_rounds: the loop of run_claude_session stops
ReachedMaxRounds(n, max_rounds) == n >= max_rounds

\* the RoundResult that record_round appends
RoundResult(round_num, marker, changed) ==
    [round_number |-> round_num, end_reason |-> marker, has_statement_changes |-> changed]

\* statement_error after record_round
StatementError(changed, on_statement_change) == changed /\ on_statement_change = "error"

\* the command of the next call of the loop: a new session when no marker
\* was found or after two consecutive LIMITs, else a continuation
NextCommand(marker, limits) ==
    IF marker = NoMarker \/ (marker = "LIMIT" /\ limits >= 2) THEN "prompt" ELSE "continue"

\* consecutive_limits once the call is made: reset with the session
LimitsAfterCall(marker, limits) ==
    IF marker = "LIMIT" /\ limits >= 2 THEN 0 ELSE limits

(***************************************************************************)
(* run_tasks                                                               *)
(***************************************************************************)
\* run_task left by an exception: the result file is written after its
\* try block
RAISES == "raises"

\* how one run of run_task ends: it returns a TaskResult with an end reason,
\* or raises
RunOutcomes == {"COMPLETE", "LIMIT", "ERROR", RAISES}

\* the TaskResult run_task returns
TaskResult(task_id, outcome) ==
    [task_id |-> task_id, success |-> outcome = "COMPLETE", end_reason |-> outcome]

\* what the loop over as_completed stores for a future: its result, or the
\* ERROR result when future.result() raised
Collected(task_id, outcome) ==
    IF outcome = RAISES
    THEN [task_id |-> task_id, success |-> FALSE, end_reason |-> "ERROR"]
    ELSE TaskResult(task_id, outcome)

\* the futures waiting for a worker thread, and those being run
Queued(fs) == {k \in DOMAIN fs : fs[k].state = "queued"}
Running(fs) == {k \in DOMAIN fs : fs[k].state = "running"}

(***************************************************************************)
(* Inputs                                                                  *)
(***************************************************************************)
\* the most lines a source snippet is made of
MaxLines == 3

\* the snippets made of at most MaxLines lines of pool, joined by line breaks
Snippets(pool) ==
    {join(<<NL>>, ls) : ls \in UNION {[1..n -> pool] : n \in 0..MaxLines}}

L_theorem_a == KW_theorem \o <<" ", "a", " ", ":", "=", " ", "b", "y">>
L_lemma_b == KW_lemma \o <<" ", "b", " ", ":">>
L_have_h == <<" ", " ">> \o KW_have \o <<" ", "h", " ", ":", "=", " ", "b", "y">>
L_simp == <<" ", " ", " ", " ", "s", "i", "m", "p">>
L_dot_by == <<" ", " ", ".", " ", "b", "y", "_", "c", "a", "s", "e", "s">>
L_middot_exact == <<MIDDOT, " ", "e", "x", "a", "c", "t", " ", "h">>
L_middot == <<" ", " ", MIDDOT>>

L_dot_exact == <<" ", " ", ".", " ", "e", "x", "a", "c", "t", " ", "h">>
L_tab_dot == <<TAB, ".", " ", "x">>
L_dot_comment == <<".", " ", "a", ":", "=", "b", " ", "-", "-", " ", "c">>
L_comment_dot == <<"/", "-", " ", ".", " ", "x", " ", "-", "/">>
L_blank == <<" ">>

\* the lines the line normalizer is run on
NormLinePool ==
    {L_dot_exact, L_middot_exact, L_tab_dot, L_dot_comment, L_comment_dot, L_blank,
     L_middot, L_simp}

NormSnippets == Snippets(NormLinePool)

\* the lines the block scanner is run on
BlockLinePool ==
    {L_theorem_a, L_lemma_b, L_have_h, L_simp, L_dot_by, L_middot_exact, L_middot}

BlockSnippets == Snippets(BlockLinePool)

SubgoalKeys == <<KW_have, KW_replace>>

AllKeys == DeclKeys \o SubgoalKeys \o DOT_KEYS

\* the key sets the extractor is called with
KeySets == {DeclKeys, SubgoalKeys, DOT_KEYS, AllKeys}

\* the (min_proof_lines, max_proof_lines) filters the extractor is called with
ProofLineFilters == {<<0, 10000>>, <<2, 10000>>}

\* lines for the block scanner: a signature whose only := is inside brackets,
\* its continuation at the same indentation, a := under two bracket levels,
\* and a proof line indented by a space and a tab
L_lemma_binder ==
    <<"l", "e", "m", "m", "a", " ", "b", " ", "(", "h", " ", ":", " ", "P", " ", ":",
      "=", " ", "1", ")">>
L_colon_by ==
    <<":", " ", "Q", " ", ":", "=", " ", "b", "y">>
L_theorem_nested ==
    <<"t", "h", "e", "o", "r", "e", "m", " ", "c", " ", "(", "h", " ", ":", " ", "P",
      " ", ":", "=", " ", "(", "f", ")", ")">>
L_tab_simp ==
    <<" ", TAB, "s", "i", "m", "p">>

\* the lines get_block_from_lid is run on
ScanLinePool ==
    {L_theorem_a, L_lemma_binder, L_colon_by, L_theorem_nested, L_simp, L_dot_exact,
     L_tab_simp}

ScanSnippets == Snippets(ScanLinePool)

\* the key sets get_block_from_lid is called with
ScanKeySets == {DeclKeys, AllKeys}

\* lines for the padding of := : no space, one space and two spaces on
\* either side, a := that is the first content of its line, one at the end
\* of its line, one after a block comment
L_assign_tight ==
    <<"a", ":", "=", "b">>
L_assign_padded ==
    <<"a", " ", ":", "=", " ", "b">>
L_assign_two_before ==
    <<"a", " ", " ", ":", "=", " ", "b">>
L_assign_two_after ==
    <<"a", " ", ":", "=", " ", " ", "b">>
L_assign_first ==
    <<" ", " ", ":", "=", " ", "b">>
L_assign_last ==
    <<"a", ":", "=", " ", "-", "-", " ", "c">>
L_assign_after_comment ==
    <<"x", " ", "/", "-", " ", "c", " ", "-", "/", " ", ":", "=", " ", "y">>

\* the lines the padding of := is run on
PadLinePool ==
    {L_assign_tight, L_assign_padded, L_assign_two_before, L_assign_two_after,
     L_assign_first, L_assign_last, L_assign_after_comment}

PadSnippets == Snippets(PadLinePool)

\* lines for the second normalization: two and three bullet markers in a
\* row, and the start of a block comment left by the removal of another
L_dot_dot_exact ==
    <<".", " ", ".", " ", "e", "x", "a", "c", "t", " ", "h">>
L_dot_middot_dot ==
    <<" ", " ", ".", " ", MIDDOT, " ", ".", " ", "x">>
L_comment_in_comment ==
    <<"/", "/", "-", " ", "c", " ", "-", "/", "-", " ", "x", " ", "-", "/">>

\* the lines the normalizer is run on twice
RenormLinePool ==
    {L_dot_dot_exact, L_dot_middot_dot, L_comment_in_comment, L_dot_exact, L_theorem_a,
     L_assign_tight, L_simp}

RenormSnippets == Snippets(RenormLinePool)

\* the most tokens a text given to the splitter is made of
MaxTokens == 4

SplitTokens ==
    {ASSIGN, <<"(">>, <<")">>, <<"[">>, <<"]">>, <<"{">>, <<"}">>, <<"x">>, <<" ">>,
     <<":">>}

\* lemma bar (h : (fun x := x) = id) : True := trivial
SplitExample ==
    KW_lemma \o <<" ", "b", "a", "r", " ", "(", "h", " ", ":", " ", "(", "f", "u", "n",
                  " ", "x", " ", ":", "=", " ", "x", ")", " ", "=", " ", "i", "d", ")",
                  " ", ":", " ", "T", "r", "u", "e", " ", ":", "=", " ",
                  "t", "r", "i", "v", "i", "a", "l">>

\* the texts the splitter is run on
SplitTexts ==
    {Flatten(ts) : ts \in UNION {[1..n -> SplitTokens] : n \in 0..MaxTokens}}
        \cup {SplitExample}

NameTokens ==
    {KW_theorem, <<" ">>, <<"v">>, <<":">>, <<"(">>, <<"{">>, <<"[">>}

\* theorem v1 : xxx
NameExample1 == KW_theorem \o <<" ", "v", "1", " ", ":", " ", "x", "x", "x">>
\* theorem : xxx
NameExample2 == KW_theorem \o <<" ", ":", " ", "x", "x", "x">>
\* lemma t1 (x : T) : ...
NameExample3 ==
    KW_lemma \o <<" ", "t", "1", " ", "(", "x", " ", ":", " ", "T", ")", " ", ":", " ",
                  ".", ".", ".">>
\* theorem := xxx
NameExample4 == KW_theorem \o <<" ", ":", "=", " ", "x", "x", "x">>

\* the (code, key) pairs name extraction is run on
NameCalls ==
    ({Flatten(ts) : ts \in UNION {[1..n -> NameTokens] : n \in 0..MaxTokens}}
        \X {KW_theorem})
    \cup {<<NameExample1, KW_theorem>>, <<NameExample2, KW_theorem>>,
          <<NameExample3, KW_lemma>>, <<NameExample4, KW_theorem>>,
          <<NameExample1, KW_lemma>>}

\* the most lemma snippets the composer is given
MaxLemmas == 2

\* import Mathlib
\* theorem a : T := by
\*   simp
S_import_theorem ==
    <<"i", "m", "p", "o", "r", "t", " ", "M", "a", "t", "h", "l", "i", "b", NL, "t",
      "h", "e", "o", "r", "e", "m", " ", "a", " ", ":", " ", "T", " ", ":", "=", " ",
      "b", "y", NL, " ", " ", "s", "i", "m", "p">>

\* import Mathlib Aesop
\* lemma b : T := by
\*   simp
S_imports_lemma ==
    <<"i", "m", "p", "o", "r", "t", " ", "M", "a", "t", "h", "l", "i", "b", " ", "A",
      "e", "s", "o", "p", NL, "l", "e", "m", "m", "a", " ", "b", " ", ":", " ", "T",
      " ", ":", "=", " ", "b", "y", NL, " ", " ", "s", "i", "m", "p">>

\* lemma d : T
S_lemma_no_proof ==
    <<"l", "e", "m", "m", "a", " ", "d", " ", ":", " ", "T">>

\* lemma my_theorem : T := by
\*   simp
S_lemma_my_theorem ==
    <<"l", "e", "m", "m", "a", " ", "m", "y", "_", "t", "h", "e", "o", "r", "e", "m",
      " ", ":", " ", "T", " ", ":", "=", " ", "b", "y", NL, " ", " ", "s", "i", "m",
      "p">>

\* theorem e : T
\* import Foo
S_theorem_then_import ==
    <<"t", "h", "e", "o", "r", "e", "m", " ", "e", " ", ":", " ", "T", NL, "i", "m",
      "p", "o", "r", "t", " ", "F", "o", "o">>

\* open Nat
\* def f := 1
\* theorem g := by
\*   simp
S_open_def_theorem ==
    <<"o", "p", "e", "n", " ", "N", "a", "t", NL, "d", "e", "f", " ", "f", " ", ":",
      "=", " ", "1", NL, "t", "h", "e", "o", "r", "e", "m", " ", "g", " ", ":", "=",
      " ", "b", "y", NL, " ", " ", "s", "i", "m", "p">>

\* the snippets the composer is run on
ComposeSnippets ==
    {S_import_theorem, S_imports_lemma, S_lemma_no_proof, S_lemma_my_theorem,
     S_theorem_then_import, S_open_def_theorem}

\* the lists of lemma snippets the composer is run on
LemmaLists == UNION {[1..n -> ComposeSnippets] : n \in 0..MaxLemmas}

\* import Mathlib
\* set_option maxHeartbeats 0
\* open scoped Nat
\* open scoped Real
\* def f := 1
\* theorem a : T := by
\*   simp
H_scoped_twice ==
    <<"i", "m", "p", "o", "r", "t", " ", "M", "a", "t", "h", "l", "i", "b", NL, "s",
      "e", "t", "_", "o", "p", "t", "i", "o", "n", " ", "m", "a", "x", "H", "e", "a",
      "r", "t", "b", "e", "a", "t", "s", " ", "0", NL, "o", "p", "e", "n", " ", "s",
      "c", "o", "p", "e", "d", " ", "N", "a", "t", NL, "o", "p", "e", "n", " ", "s",
      "c", "o", "p", "e", "d", " ", "R", "e", "a", "l", NL, "d", "e", "f", " ", "f",
      " ", ":", "=", " ", "1", NL, "t", "h", "e", "o", "r", "e", "m", " ", "a", " ",
      ":", " ", "T", " ", ":", "=", " ", "b", "y", NL, " ", " ", "s", "i", "m", "p">>

\* import Aesop
\* open Real Nat
\* abbrev g := 2
\* theorem b : T := by
\*   simp
H_open_abbrev ==
    <<"i", "m", "p", "o", "r", "t", " ", "A", "e", "s", "o", "p", NL, "o", "p", "e",
      "n", " ", "R", "e", "a", "l", " ", "N", "a", "t", NL, "a", "b", "b", "r", "e",
      "v", " ", "g", " ", ":", "=", " ", "2", NL, "t", "h", "e", "o", "r", "e", "m",
      " ", "b", " ", ":", " ", "T", " ", ":", "=", " ", "b", "y", NL, " ", " ", "s",
      "i", "m", "p">>

\* open scoped BigOperators
\* lemma c : T := by
\*   simp
H_scoped_once ==
    <<"o", "p", "e", "n", " ", "s", "c", "o", "p", "e", "d", " ", "B", "i", "g", "O",
      "p", "e", "r", "a", "t", "o", "r", "s", NL, "l", "e", "m", "m", "a", " ", "c",
      " ", ":", " ", "T", " ", ":", "=", " ", "b", "y", NL, " ", " ", "s", "i", "m",
      "p">>

\*   set_option b 1
\* set_option a 1
\* lemma d : T := by
\*   simp
H_indented_option ==
    <<" ", " ", "s", "e", "t", "_", "o", "p", "t", "i", "o", "n", " ", "b", " ", "1",
      NL, "s", "e", "t", "_", "o", "p", "t", "i", "o", "n", " ", "a", " ", "1", NL, "l",
      "e", "m", "m", "a", " ", "d", " ", ":", " ", "T", " ", ":", "=", " ", "b", "y",
      NL, " ", " ", "s", "i", "m", "p">>

\* the snippets with header lines and other top-level code the composer and
\* extract_headers are run on
LayoutSnippets ==
    {H_scoped_twice, H_open_abbrev, H_scoped_once, H_indented_option, S_import_theorem}

\* the lists of lemma snippets given with them
LayoutLemmaLists == UNION {[1..n -> LayoutSnippets] : n \in 0..MaxLemmas}

L_theorem_by ==
    <<"t", "h", "e", "o", "r", "e", "m", " ", "a", " ", "(", "h", " ", ":", " ", "P",
      ")", " ", ":", " ", "P", " ", ":", "=", " ", "b", "y">>

L_have_by ==
    <<" ", " ", "h", "a", "v", "e", " ", "h", "1", " ", ":", " ", "P", " ", ":", "=",
      " ", "b", "y">>

L_have_term ==
    <<" ", " ", "h", "a", "v", "e", " ", "h", "2", " ", ":", " ", "P", " ", ":", "=",
      " ", "h">>

L_have_no_proof ==
    <<" ", " ", "h", "a", "v", "e", " ", "h", "3", " ", ":", " ", "P">>

L_exact ==
    <<" ", " ", " ", " ", "e", "x", "a", "c", "t", " ", "h">>

\* the lines the stub generator is run on
StubLinePool == {L_theorem_by, L_have_by, L_have_term, L_have_no_proof, L_exact}

StubSnippets == Snippets(StubLinePool)

\* a sub-goal proved by a term whose first token begins with the letters by
L_have_by_term ==
    <<" ", " ", "h", "a", "v", "e", " ", "h", "c", " ", ":", " ", "P", " ", ":", "=",
      " ", "b", "y", "C", "o", "n", "t", "r", "a", "d", "i", "c", "t", "i", "o", "n",
      " ", "h", "n">>

\* the lines the block classifier is run on
StyleLinePool == StubLinePool \cup {L_have_by_term}

StyleSnippets == Snippets(StyleLinePool)

\* the key sets the blocks to classify are extracted with
StyleKeySets == {DeclKeys, SubgoalKeys}

L_import_mathlib == KW_import \o <<" ", "M", "a", "t", "h", "l", "i", "b">>
L_import_aesop == KW_import \o <<" ", "A", "e", "s", "o", "p">>
\* the keyword with no package name after it
L_import_alone == KW_import
L_theorem_t == KW_theorem \o <<" ", "t", " ", ":", " ", "T">>

\* the lines the text tools are run on
ToolLinePool == {L_import_mathlib, L_import_aesop, L_import_alone, L_theorem_t, L_simp}

ToolSnippets == Snippets(ToolLinePool)

\* the prefix lists remove_imports is called with
PrefixLists == {<<>>, <<<<"M", "a", "t", "h", "l", "i", "b">>>>}

\* the declarations of the tracked file
\* theorem a : T := by simp
D_a ==
    <<"t", "h", "e", "o", "r", "e", "m", " ", "a", " ", ":", " ", "T", " ", ":", "=",
      " ", "b", "y", " ", "s", "i", "m", "p">>

\* the same statement with other whitespace
\* theorem a :  T := by simp
D_a_spaced ==
    <<"t", "h", "e", "o", "r", "e", "m", " ", "a", " ", ":", " ", " ", "T", " ", ":",
      "=", " ", "b", "y", " ", "s", "i", "m", "p">>

\* theorem a : U := by simp
D_a_changed ==
    <<"t", "h", "e", "o", "r", "e", "m", " ", "a", " ", ":", " ", "U", " ", ":", "=",
      " ", "b", "y", " ", "s", "i", "m", "p">>

\* lemma b : T := by simp
D_b ==
    <<"l", "e", "m", "m", "a", " ", "b", " ", ":", " ", "T", " ", ":", "=", " ", "b",
      "y", " ", "s", "i", "m", "p">>

\* a declaration by pattern matching, without ":="
\* lemma b : T
\*   | 0 => rfl
D_b_cases ==
    <<"l", "e", "m", "m", "a", " ", "b", " ", ":", " ", "T", NL, " ", " ", "|", " ",
      "0", " ", "=", ">", " ", "r", "f", "l">>

DeclPool == {D_a, D_a_spaced, D_a_changed, D_b, D_b_cases}

\* the most declarations the tracked file is made of
MaxDecls == 2

\* the texts of the tracked file; NoFile when it does not exist
TrackedTexts ==
    {join(<<NL>>, ds) : ds \in UNION {[1..n -> DeclPool] : n \in 0..MaxDecls}}
    \cup {NoFile}

\* the most rounds a task allows
MaxRounds == 4

\* the tasks run: max_rounds is not validated, so 0 is one of its values
Tasks ==
    [max_rounds : 0..MaxRounds, check_after_complete : BOOLEAN, allow_sorry : BOOLEAN,
     on_statement_change : {"error", "warn"}, lean_files : BOOLEAN]

\* the most tasks one call of run_tasks is given
MaxTasks == 3

\* the task_id values
TaskIds == {"t1", "t2", "t3", "t4"}

\* the task lists run_tasks is called with: up to MaxTasks tasks, no task
\* twice
TaskLists ==
    {l \in UNION {[1..n -> TaskIds] : n \in 0..MaxTasks} :
        \A j, k \in 1..Len(l) : j # k => l[j] # l[k]}

\* the max_workers values
WorkerCounts == 0..2

\* the max_sorry_cnt values the stub generator is called with
SorryCaps == {1, 100000}

(***************************************************************************)
(* The parser as a state machine: the instance fields original_code and    *)
(* cleaned_lines, and the last call with its arguments and its result.     *)
(***************************************************************************)
Init ==
    /\ original_code = <<>>
    /\ cleaned_lines = <<>>
    /\ op = "none"
    /\ args = <<>>
    /\ ret = NoneVal
    /\ file_text = NoFile
    /\ initial_snapshots = NoneVal
    /\ task = NoneVal
    /\ pc = "idle"
    /\ reason = NoMarker
    /\ rounds = 0
    /\ consecutive_limits = 0
    /\ round_results = <<>>
    /\ calls = <<>>
    /\ checks = <<>>
    /\ end_reason = NoMarker
    /\ task_result = NoneVal
    /\ tasks = <<>>
    /\ parallel = FALSE
    /\ max_workers = 1
    /\ futures = <<>>
    /\ results = <<>>
    /\ batch_pc = "idle"

\* LeanCodeParser(code)
Construct(code) ==
    /\ op = "none"
    /\ original_code' = code
    /\ cleaned_lines' = strip_comments_and_blank_lines(code)
    /\ op' = "__init__"
    /\ args' = <<>>
    /\ ret' = NoneVal
    /\ UNCHANGED <<tracker_vars, session_vars, batch_vars>>

\* p.extract_all_blocks(keys, allow_overlap, min_proof_lines, max_proof_lines)
ExtractAllBlocks(keys, allow_overlap, filter) ==
    /\ op = "__init__"
    /\ op' = "extract_all_blocks"
    /\ args' = [keys |-> keys, allow_overlap |-> allow_overlap,
                min_proof_lines |-> filter[1], max_proof_lines |-> filter[2]]
    /\ ret' = extract_all_blocks(cleaned_lines, keys, allow_overlap, filter[1], filter[2])
    /\ UNCHANGED <<original_code, cleaned_lines, tracker_vars, session_vars, batch_vars>>

\* p.get_block_from_lid(start_line_index, keys)
GetBlockFromLid(start_line_index, keys) ==
    /\ op = "__init__"
    /\ op' = "get_block_from_lid"
    /\ args' = [start_line_index |-> start_line_index, keys |-> keys]
    /\ ret' = get_block_from_lid(cleaned_lines, start_line_index, keys)
    /\ UNCHANGED <<original_code, cleaned_lines, tracker_vars, session_vars, batch_vars>>

\* p.extract_statement_and_proof_from_code(code)
ExtractStatementAndProof(code) ==
    /\ op = "__init__"
    /\ op' = "extract_statement_and_proof_from_code"
    /\ args' = [code |-> code]
    /\ ret' = extract_statement_and_proof_from_code(code)
    /\ UNCHANGED <<original_code, cleaned_lines, tracker_vars, session_vars, batch_vars>>

\* LeanCodeParser.extract_name_from_code(code, key), a static method
ExtractNameFromCode(code, key) ==
    /\ op = "none"
    /\ op' = "extract_name_from_code"
    /\ args' = [code |-> code, key |-> key]
    /\ ret' = extract_name_from_code(code, key)
    /\ UNCHANGED <<original_code, cleaned_lines, tracker_vars, session_vars, batch_vars>>

\* LeanCodeParser.get_theorem_name(code)
GetTheoremName(code) ==
    /\ op = "none"
    /\ op' = "get_theorem_name"
    /\ args' = [code |-> code]
    /\ ret' = get_theorem_name(code)
    /\ UNCHANGED <<original_code, cleaned_lines, tracker_vars, session_vars, batch_vars>>

\* p.extract_headers()
ExtractHeaders ==
    /\ op = "__init__"
    /\ op' = "extract_headers"
    /\ args' = <<>>
    /\ ret' = extract_headers(cleaned_lines)
    /\ UNCHANGED <<original_code, cleaned_lines, tracker_vars, session_vars, batch_vars>>

\* add_newlines_before_keys(code, keys)
AddNewlinesBeforeKeys(code, keys) ==
    /\ op = "none"
    /\ op' = "add_newlines_before_keys"
    /\ args' = [code |-> code, keys |-> keys]
    /\ ret' = add_newlines_before_keys(code, keys)
    /\ UNCHANGED <<original_code, cleaned_lines, tracker_vars, session_vars, batch_vars>>

\* remove_imports(code, prefixes)
RemoveImports(code, prefixes) ==
    /\ op = "none"
    /\ op' = "remove_imports"
    /\ args' = [code |-> code, prefixes |-> prefixes]
    /\ ret' = remove_imports(code, prefixes)
    /\ UNCHANGED <<original_code, cleaned_lines, tracker_vars, session_vars, batch_vars>>

\* StatementTracker(files) for one file whose text is text
NewTracker(text) ==
    /\ op = "none"
    /\ file_text' = text
    /\ initial_snapshots' = extract_statements_from_file(text)
    /\ op' = "StatementTracker"
    /\ args' = <<>>
    /\ ret' = NoneVal
    /\ UNCHANGED <<original_code, cleaned_lines, session_vars, batch_vars>>

\* the agent run between the capture and the check leaves the file with text
WriteFile(text) ==
    /\ op = "StatementTracker"
    /\ file_text' = text
    /\ op' = "write"
    /\ UNCHANGED <<original_code, cleaned_lines, args, ret, initial_snapshots, session_vars, batch_vars>>

\* tracker.check()
Check ==
    /\ op = "write"
    /\ op' = "check"
    /\ ret' \in ChangeLists(ChangesOf(initial_snapshots,
                                      extract_statements_from_file(file_text)))
    /\ UNCHANGED <<original_code, cleaned_lines, args, tracker_vars, session_vars, batch_vars>>

\* run_task(task) up to its call of run_claude_session; lean_files tells
\* whether the check path holds .lean files
RunTask(t) ==
    /\ pc = "idle"
    /\ task' = t
    /\ pc' = "first_call"
    /\ UNCHANGED <<original_code, cleaned_lines, op, args, ret, tracker_vars, batch_vars,
                   reason,
                   rounds, consecutive_limits, round_results, calls, checks, end_reason,
                   task_result>>

\* the first call of run_claude_session: the agent is run with the prompt,
\* its output holds marker, and the tracker reports changes or not
FirstCall(marker, changed) ==
    /\ pc = "first_call"
    /\ calls' = Append(calls, "prompt")
    /\ round_results' = Append(round_results, RoundResult(1, marker, changed))
    /\ reason' = marker
    /\ rounds' = 1
    /\ IF StatementError(changed, task.on_statement_change)
       THEN /\ end_reason' = "STATEMENT_CHANGED"
            /\ pc' = "returned"
            /\ UNCHANGED consecutive_limits
       ELSE /\ consecutive_limits' = (IF marker = "LIMIT" THEN 1 ELSE 0)
            /\ pc' = "loop"
            /\ UNCHANGED end_reason
    /\ UNCHANGED <<original_code, cleaned_lines, op, args, ret, tracker_vars, batch_vars,
                   task,
                   checks, task_result>>

\* the head of the while loop up to the next call: the stop at max_rounds,
\* the verification callback after COMPLETE (outcome is what the checker
\* finds when it is run), the round counter
LoopHead(outcome) ==
    /\ pc = "loop"
    /\ IF ReachedMaxRounds(rounds, task.max_rounds)
       THEN /\ pc' = "returned"
            /\ end_reason' = reason
            /\ UNCHANGED <<rounds, checks>>
       ELSE IF reason = "COMPLETE"
       THEN IF ~task.check_after_complete
            THEN /\ pc' = "returned"
                 /\ end_reason' = reason
                 /\ UNCHANGED <<rounds, checks>>
            ELSE IF ~task.lean_files
            THEN /\ pc' = "returned"
                 /\ end_reason' = reason
                 /\ UNCHANGED <<rounds, checks>>
            ELSE /\ checks' = Append(checks, [after |-> Len(calls), outcome |-> outcome])
                 /\ IF HasErrors(outcome, task.allow_sorry)
                    THEN /\ rounds' = rounds + 1
                         /\ pc' = "resend"
                         /\ UNCHANGED end_reason
                    ELSE /\ pc' = "returned"
                         /\ end_reason' = reason
                         /\ UNCHANGED rounds
       ELSE /\ rounds' = rounds + 1
            /\ pc' = "next_call"
            /\ UNCHANGED <<checks, end_reason>>
    /\ UNCHANGED <<original_code, cleaned_lines, op, args, ret, tracker_vars, batch_vars,
                   task,
                   reason, consecutive_limits, round_results, calls, task_result>>

\* the call after a failed verification: the prompt is sent again
ResendCall(marker, changed) ==
    /\ pc = "resend"
    /\ calls' = Append(calls, "prompt")
    /\ round_results' = Append(round_results, RoundResult(rounds, marker, changed))
    /\ reason' = marker
    /\ IF StatementError(changed, task.on_statement_change)
       THEN end_reason' = "STATEMENT_CHANGED" /\ pc' = "returned"
       ELSE pc' = "loop" /\ UNCHANGED end_reason
    /\ UNCHANGED <<original_code, cleaned_lines, op, args, ret, tracker_vars, batch_vars,
                   task,
                   rounds, consecutive_limits, checks, task_result>>

\* the call at the end of the loop body, and the update of consecutive_limits
NextCall(marker, changed) ==
    /\ pc = "next_call"
    /\ calls' = Append(calls, NextCommand(reason, consecutive_limits))
    /\ round_results' = Append(round_results, RoundResult(rounds, marker, changed))
    /\ reason' = marker
    /\ IF StatementError(changed, task.on_statement_change)
       THEN /\ end_reason' = "STATEMENT_CHANGED"
            /\ pc' = "returned"
            /\ consecutive_limits' = LimitsAfterCall(reason, consecutive_limits)
       ELSE /\ consecutive_limits' =
                  (IF marker = "LIMIT"
                   THEN LimitsAfterCall(reason, consecutive_limits) + 1 ELSE 0)
            /\ pc' = "loop"
            /\ UNCHANGED end_reason
    /\ UNCHANGED <<original_code, cleaned_lines, op, args, ret, tracker_vars, batch_vars,
                   task,
                   rounds, checks, task_result>>

\* run_task once run_claude_session has returned: the final verification
\* when the session did not end with COMPLETE, and the TaskResult
FinishTask(outcome) ==
    /\ pc = "returned"
    /\ pc' = "done"
    /\ IF task.check_after_complete /\ end_reason # "COMPLETE" /\ task.lean_files
       THEN /\ checks' = Append(checks, [after |-> Len(calls), outcome |-> outcome])
            /\ end_reason' = (IF ~HasErrors(outcome, task.allow_sorry) /\ ~task.allow_sorry
                              THEN "COMPLETE" ELSE end_reason)
       ELSE UNCHANGED <<checks, end_reason>>
    /\ task_result' =
          [success |-> end_reason' = "COMPLETE",
           end_reason |-> end_reason',
           rounds_used |-> rounds,
           statement_changed |->
               \E k \in 1..Len(round_results) : round_results[k].has_statement_changes]
    /\ UNCHANGED <<original_code, cleaned_lines, op, args, ret, tracker_vars, batch_vars,
                   task,
                   reason, rounds, consecutive_limits, round_results, calls>>

\* run_tasks(tasks, parallel, max_workers) up to the first run: the empty
\* list returns at once; the parallel branch submits one future per task
RunTasks(ts, par, workers) ==
    /\ batch_pc = "idle"
    /\ tasks' = ts
    /\ parallel' = par
    /\ max_workers' = workers
    /\ IF ts = <<>>
       THEN batch_pc' = "returned" /\ results' = <<>> /\ futures' = <<>>
       ELSE IF ~par \/ workers <= 1
       THEN batch_pc' = "sequential" /\ results' = <<>> /\ futures' = <<>>
       ELSE /\ batch_pc' = "parallel"
            /\ results' = [k \in 1..Len(ts) |-> NoneVal]
            /\ futures' = [k \in 1..Len(ts) |-> [state |-> "queued", outcome |-> NoMarker]]
    /\ UNCHANGED <<original_code, cleaned_lines, op, args, ret, tracker_vars, session_vars>>

\* one iteration of the sequential loop: run_task on the next task ends
\* with outcome; an exception of run_task leaves run_tasks
RunNextTask(outcome) ==
    /\ batch_pc = "sequential"
    /\ IF outcome = RAISES
       THEN batch_pc' = "raised" /\ UNCHANGED results
       ELSE /\ results' = Append(results, TaskResult(tasks[Len(results) + 1], outcome))
            /\ batch_pc' = (IF Len(results') = Len(tasks) THEN "returned" ELSE "sequential")
    /\ UNCHANGED <<original_code, cleaned_lines, op, args, ret, tracker_vars, session_vars,
                   tasks, parallel, max_workers, futures>>

\* a free worker thread of the pool takes the oldest submitted task
StartWorker ==
    /\ batch_pc = "parallel"
    /\ Queued(futures) # {}
    /\ Cardinality(Running(futures)) < max_workers
    /\ futures' = [futures EXCEPT ![Least(Queued(futures), 0)].state = "running"]
    /\ UNCHANGED <<original_code, cleaned_lines, op, args, ret, tracker_vars, session_vars,
                   tasks, parallel, max_workers, results, batch_pc>>

\* run_task ends in the worker thread of future idx
FinishWorker(idx, outcome) ==
    /\ batch_pc = "parallel"
    /\ idx \in Running(futures)
    /\ futures' = [futures EXCEPT ![idx] = [state |-> "finished", outcome |-> outcome]]
    /\ UNCHANGED <<original_code, cleaned_lines, op, args, ret, tracker_vars, session_vars,
                   tasks, parallel, max_workers, results, batch_pc>>

\* one iteration of the loop over as_completed: a finished future is
\* yielded and its result, or the ERROR result, is stored at its index; the
\* loop ends, and run_tasks returns, once every future was yielded
Collect(idx) ==
    /\ batch_pc = "parallel"
    /\ futures[idx].state = "finished"
    /\ results' = [results EXCEPT ![idx] = Collected(tasks[idx], futures[idx].outcome)]
    /\ futures' = [futures EXCEPT ![idx].state = "yielded"]
    /\ batch_pc' = (IF \A k \in DOMAIN futures' : futures'[k].state = "yielded"
                    THEN "returned" ELSE "parallel")
    /\ UNCHANGED <<original_code, cleaned_lines, op, args, ret, tracker_vars, session_vars,
                   tasks, parallel, max_workers>>

\* create_statement_with_lemmas(original_statement, lemmas)
CreateStatementWithLemmas(original_statement, lemmas) ==
    /\ op = "none"
    /\ op' = "create_statement_with_lemmas"
    /\ args' = [original_statement |-> original_statement, lemmas |-> lemmas]
    /\ ret' = create_statement_with_lemmas(original_statement, lemmas)
    /\ UNCHANGED <<original_code, cleaned_lines, tracker_vars, session_vars, batch_vars>>

\* create_proof_with_sorries(original_statement, keys, max_sorry_cnt) with the
\* default proof-line filter
CreateProofWithSorries(original_statement, keys, max_sorry_cnt) ==
    /\ op = "none"
    /\ op' = "create_proof_with_sorries"
    /\ args' = [original_statement |-> original_statement, keys |-> keys,
                max_sorry_cnt |-> max_sorry_cnt]
    /\ ret' = create_proof_with_sorries(original_statement, keys, max_sorry_cnt, 0, 100000)
    /\ UNCHANGED <<original_code, cleaned_lines, tracker_vars, session_vars, batch_vars>>

NextBlocks ==
    \/ op = "none" /\ \E code \in BlockSnippets : Construct(code)
    \/ op = "__init__" /\ \E keys \in KeySets, allow_overlap \in BOOLEAN,
                              filter \in ProofLineFilters :
                              ExtractAllBlocks(keys, allow_overlap, filter)

SpecBlocks == Init /\ [][NextBlocks]_vars

(***************************************************************************)
(* Properties of the all-blocks extractor                                  *)
(***************************************************************************)
\* C1: with allow_overlap = False, whatever the source, the keys and the
\* proof-line filter, the line ranges [start, end] of the returned blocks are
\* pairwise disjoint and the starts strictly increase in output order
C1_DisjointSortedBlocks ==
    (op = "extract_all_blocks" /\ ~args.allow_overlap) =>
        /\ \A k \in 1..Len(ret) : ret[k].start <= ret[k].end
        /\ \A j, k \in 1..Len(ret) :
              j < k => /\ ret[j].start < ret[k].start
                       /\ ret[j].end < ret[k].start

\* a call without overlap that returns at least two blocks, one of them with a
\* line inside it at which a block of its own would have been kept
C1_Witness ==
    /\ op = "extract_all_blocks"
    /\ ~args.allow_overlap
    /\ Len(ret) >= 2
    /\ \E k \in 1..Len(ret) : \E i \in (ret[k].start + 1)..ret[k].end :
          KeepBlock(get_block_from_lid(cleaned_lines, i, args.keys),
                    args.min_proof_lines, args.max_proof_lines)

\* C9: every block whose key is a bullet marker has proof_style dot_block,
\* name "." and statement "."; and every block of proof_style dot_block has a
\* bullet marker as key and the name "."
C9_BulletBlocksAreDotBlocks ==
    op = "extract_all_blocks" =>
        \A k \in 1..Len(ret) :
            /\ ret[k].key \in {<<".">>, <<MIDDOT>>} =>
                  /\ ret[k].info.proof_style = "dot_block"
                  /\ ret[k].info.name = <<".">>
                  /\ ret[k].info.statement = <<".">>
            /\ ret[k].info.proof_style = "dot_block" =>
                  /\ ret[k].key \in {<<".">>, <<MIDDOT>>}
                  /\ ret[k].info.name = <<".">>

(***************************************************************************)
(* Properties of the statement/proof splitter                              *)
(***************************************************************************)
NextSplit ==
    \/ op = "none" /\ Construct(<<>>)
    \/ op = "__init__" /\ \E code \in SplitTexts : ExtractStatementAndProof(code)

SpecSplit == Init /\ [][NextSplit]_vars

\* the number of characters c in code before position i
CountBefore(code, i, c) == Cardinality({k \in 1..(i - 1) : code[k] = c})

\* the positions of the ":=" of code
Assigns(code) == {i \in 1..Len(code) : StartsWithAt(code, ASSIGN, i)}

\* the positions of the ":=" before which every kind of bracket was opened
\* as often as it was closed
ZeroDepthAssigns(code) ==
    {i \in Assigns(code) : /\ CountBefore(code, i, "(") = CountBefore(code, i, ")")
                           /\ CountBefore(code, i, "[") = CountBefore(code, i, "]")
                           /\ CountBefore(code, i, "{") = CountBefore(code, i, "}")}

\* the result is the split of code at position i: the trimmed text before it
\* and the trimmed text after the two characters
IsSplitAt(result, code, i) ==
    /\ result # NoneVal
    /\ result.statement = strip(SubSeq(code, 1, i - 1))
    /\ result.proof = strip(SubSeq(code, i + 2, Len(code)))

\* C2: when some ":=" stands at depth zero of the round, square and curly
\* counters, the splitter splits at the first such ":=": the statement is the
\* trimmed text before it, the proof the trimmed text after it, and no ":="
\* nested in brackets before it is chosen
C2_SplitAtFirstZeroDepth ==
    (op = "extract_statement_and_proof_from_code" /\ ZeroDepthAssigns(args.code) # {}) =>
        IsSplitAt(ret, args.code, Least(ZeroDepthAssigns(args.code), 0))

\* the splitter was given the text of SplitExample, whose first ":=" is nested
\* in brackets, and returned the proof "trivial"
C2_Witness ==
    /\ op = "extract_statement_and_proof_from_code"
    /\ args.code = SplitExample
    /\ Least(Assigns(args.code), 0) < Least(ZeroDepthAssigns(args.code), 0)
    /\ ret # NoneVal
    /\ ret.proof = <<"t", "r", "i", "v", "i", "a", "l">>

\* C3: the splitter reports no split exactly when the text holds no ":=", and
\* when a ":=" occurs but none at depth zero it splits at the first ":="
C3_NoSplitIffNoAssign ==
    op = "extract_statement_and_proof_from_code" =>
        /\ (ret = NoneVal) <=> (Assigns(args.code) = {})
        /\ (Assigns(args.code) # {} /\ ZeroDepthAssigns(args.code) = {}) =>
              IsSplitAt(ret, args.code, Least(Assigns(args.code), 0))

\* the splitter was given a text with a ":=" but none at depth zero and
\* returned a pair whose statement and proof are not both empty
C3_Witness ==
    /\ op = "extract_statement_and_proof_from_code"
    /\ Assigns(args.code) # {}
    /\ ZeroDepthAssigns(args.code) = {}
    /\ ret # NoneVal
    /\ ret.statement # <<>>
    /\ ret.proof # <<>>

(***************************************************************************)
(* Properties of name extraction                                           *)
(***************************************************************************)
NextName ==
    \/ op = "none" /\ \E call \in NameCalls : ExtractNameFromCode(call[1], call[2])
    \/ op = "none" /\ \E call \in NameCalls : GetTheoremName(call[1])

SpecName == Init /\ [][NextName]_vars

\* the first token of the line is the key
StartsWithKey(code, key) == split(code) # <<>> /\ split(code)[1] = key

\* what remains of the line after the key
AfterKey(code, key) == strip(SubSeq(strip(code), Len(key) + 1, Len(strip(code))))

\* the longest leading run of characters of rest other than space, ":", "{",
\* "[" and "("
LeadingRun(rest) ==
    SubSeq(rest, 1, Least({j \in 1..Len(rest) : rest[j] \in {" ", ":", "{", "[", "("}},
                          Len(rest) + 1) - 1)

\* C10 as stated: for a first line that starts with the key, the name is
\* "this" when what remains after the key starts with ":", "(" or ":=", and
\* otherwise the longest leading run of characters other than space, ":",
\* "{", "[" and "("
C10_NameOfAnyKeyLine ==
    (op = "extract_name_from_code" /\ StartsWithKey(args.code, args.key)) =>
        ret = IF \/ startswith(AfterKey(args.code, args.key), <<":">>)
                 \/ startswith(AfterKey(args.code, args.key), <<"(">>)
                 \/ startswith(AfterKey(args.code, args.key), ASSIGN)
              THEN THIS
              ELSE LeadingRun(AfterKey(args.code, args.key))

\* C10 as the code has it: for a first line that starts with the key, the
\* name is None when the key is not followed by a space or when what remains
\* after the key starts with "{" or "[" (the run is empty); it is "this" when
\* what remains starts with ":" or "(" (so also with ":="), and otherwise it
\* is the longest leading run of characters other than space, ":", "{", "["
\* and "("
C10_NameOfKeyLine ==
    (op = "extract_name_from_code" /\ StartsWithKey(args.code, args.key)) =>
        ret = IF ~startswith(strip(args.code), args.key \o <<" ">>) THEN NoneStr
              ELSE IF AfterKey(args.code, args.key)[1] \in {":", "("} THEN THIS
              ELSE IF AfterKey(args.code, args.key)[1] \in {"{", "["} THEN NoneStr
              ELSE LeadingRun(AfterKey(args.code, args.key))

\* the three lines of the examples were named v1, this and t1
C10_Witness ==
    /\ op = "extract_name_from_code"
    /\ \/ args.code = NameExample1 /\ ret = <<"v", "1">>
       \/ args.code = NameExample2 /\ ret = THIS
       \/ args.code = NameExample3 /\ ret = <<"t", "1">>

\* the call ended in an exception instead of a returned value
Raised(result) == result \in {AssertionError, IndexError}

\* the text is a declaration introduced by one of the keys: its first token
\* is the key
IsDeclarationOf(code, keys) == \E k \in 1..Len(keys) : StartsWithKey(code, keys[k])

\* C11: a contract violation is a hard failure: extract_name_from_code
\* raises when the text does not start with the expected key, and
\* get_theorem_name raises when the text is not a theorem or lemma
\* declaration; neither returns a guessed or null name
C11_ContractViolationsRaise ==
    /\ (op = "extract_name_from_code" /\ ~StartsWithKey(args.code, args.key)
            /\ ~startswith(strip(args.code), args.key))
        => Raised(ret)
    /\ (op = "get_theorem_name" /\ ~IsDeclarationOf(args.code, DeclKeys))
        => Raised(ret)

(***************************************************************************)
(* Properties of the line normalizer                                       *)
(***************************************************************************)
NextNorm == op = "none" /\ \E code \in NormSnippets : Construct(code)

SpecNorm == Init /\ [][NextNorm]_vars

\* the lines the normalizer works on: those of the text without its block
\* comments and with its ":=" padded
FormattedLines(code) == splitlines(formatting(StripBlockComments(code, 1)))

\* what a line holds before its line comment and its trailing whitespace
Content(line) == rstrip(BeforeLineComment(line))

\* the stripped content of the line begins with a bullet marker and a space
IsBulletLine(line) ==
    /\ Len(lstrip(Content(line))) >= 2
    /\ lstrip(Content(line))[1] \in {".", MIDDOT}
    /\ lstrip(Content(line))[2] = " "

\* the number of whitespace characters the content of the line begins with
Indentation(line) == Len(Content(line)) - Len(lstrip(Content(line)))

\* the text of a bullet line after its marker and the space
Remaining(line) == SubSeq(lstrip(Content(line)), 3, Len(lstrip(Content(line))))

\* the two lines of a bullet line: marker at the indentation of the line, and
\* the remaining text, unless empty, at that indentation plus 2
BulletPair(line, marker) ==
    <<Spaces(Indentation(line)) \o <<marker>>>>
    \o (IF Remaining(line) = <<>> THEN <<>>
        ELSE <<Spaces(Indentation(line) + 2) \o Remaining(line)>>)

\* the normalized lines when every bullet line gives the pair whose first
\* line holds its own marker (own = TRUE) or "." (own = FALSE), every blank
\* line gives nothing, every other line gives its content
Normalized(lines, own) ==
    Flatten([k \in 1..Len(lines) |->
               IF IsBulletLine(lines[k])
               THEN BulletPair(lines[k],
                               IF own THEN lstrip(Content(lines[k]))[1] ELSE ".")
               ELSE IF strip(Content(lines[k])) = <<>> THEN <<>>
               ELSE <<Content(lines[k])>>])

\* C8 as stated: every line whose stripped content begins with a bullet
\* marker and a space becomes a line holding just that marker at the
\* indentation of the line and a line holding the remaining text at that
\* indentation plus 2
C8_BulletKeepsMarker ==
    op = "__init__" =>
        cleaned_lines = Normalized(FormattedLines(original_code), TRUE)

\* C8 as the code has it: every line whose stripped content begins with a
\* bullet marker and a space becomes a line holding just "." (for either
\* marker) after as many spaces as the line had leading whitespace
\* characters, and a line holding the remaining text after two more spaces
C8_BulletBecomesDot ==
    op = "__init__" =>
        cleaned_lines = Normalized(FormattedLines(original_code), FALSE)

\* a text whose first line is "  . exact h" was normalized; its first two
\* normalized lines are "  ." and "    exact h"
C8_Witness ==
    /\ op = "__init__"
    /\ Len(FormattedLines(original_code)) >= 2
    /\ FormattedLines(original_code)[1] = L_dot_exact
    /\ Len(cleaned_lines) >= 3
    /\ cleaned_lines[1] = <<" ", " ", ".">>
    /\ cleaned_lines[2] = <<" ", " ", " ", " ", "e", "x", "a", "c", "t", " ", "h">>

NextRenorm == op = "none" /\ \E code \in RenormSnippets : Construct(code)

SpecRenorm == Init /\ [][NextRenorm]_vars

\* C30: normalization is idempotent: strip_comments_and_blank_lines of the
\* normalized lines joined by line breaks gives the same lines again, also
\* for lines with several bullet markers in a row
C30_NormalizationIdempotent ==
    op = "__init__" =>
        strip_comments_and_blank_lines(join(<<NL>>, cleaned_lines)) = cleaned_lines

(***************************************************************************)
(* Properties of the composer                                              *)
(***************************************************************************)
NextCompose ==
    op = "none" /\ \E original_statement \in ComposeSnippets, lemmas \in LemmaLists :
                      CreateStatementWithLemmas(original_statement, lemmas)

SpecCompose == Init /\ [][NextCompose]_vars

\* the theorem/lemma blocks of a text, extracted without overlap
DeclBlocks(code) ==
    extract_all_blocks(strip_comments_and_blank_lines(code), DeclKeys, FALSE, 0, 10000)

\* the declaration blocks of the lemma snippets in input order, then those
\* of the main snippet
InputBlocks(original_statement, lemmas) ==
    Flatten([k \in 1..Len(lemmas) |-> DeclBlocks(lemmas[k])])
    \o DeclBlocks(original_statement)

\* the text without its whitespace
NoWhitespace(s) == Flatten([k \in 1..Len(s) |-> IF IsSpace(s[k]) THEN <<>> ELSE <<s[k]>>])

\* the statement with a leading theorem keyword turned into lemma
AsLemma(statement) ==
    IF startswith(statement, KW_theorem)
    THEN KW_lemma \o SubSeq(statement, Len(KW_theorem) + 1, Len(statement))
    ELSE statement

\* C4: the blocks extracted from the composed text are, in order, one per
\* declaration of the lemma snippets and then one per declaration of the main
\* snippet, each with the statement of that declaration up to whitespace (the
\* theorem keyword of a lemma snippet's declaration read as lemma)
C4_RoundTrip ==
    op = "create_statement_with_lemmas" =>
        /\ Len(DeclBlocks(ret[1])) = Len(InputBlocks(args.original_statement, args.lemmas))
        /\ \A k \in 1..Len(DeclBlocks(ret[1])) :
              NoWhitespace(DeclBlocks(ret[1])[k].info.statement)
                  \in {NoWhitespace(InputBlocks(args.original_statement,
                                                args.lemmas)[k].info.statement),
                       NoWhitespace(AsLemma(InputBlocks(args.original_statement,
                                                        args.lemmas)[k].info.statement))}

\* the import targets of a snippet: the tokens that follow import on the
\* normalized lines whose first token is import
Targets(code) ==
    UNION {SeqToSet(Tail(split(l))) :
             l \in {m \in SeqToSet(strip_comments_and_blank_lines(code)) :
                      split(m)[1] = KW_import}}

\* the import targets of the main snippet and of the lemma snippets
AllTargets(original_statement, lemmas) ==
    Targets(original_statement) \cup UNION {Targets(lemmas[k]) : k \in 1..Len(lemmas)}

ImportLine(x) == KW_import \o <<" ">> \o x

\* the indices of the lines whose first token is import
ImportLineIndices(lines) ==
    {k \in 1..Len(lines) : split(lines[k]) # <<>> /\ split(lines[k])[1] = KW_import}

\* every target of targets is on exactly one line "import X" of lines, and the
\* import lines of lines are in sorted order
OnOneLineEach(lines, targets) ==
    /\ \A x \in targets :
          Cardinality({k \in 1..Len(lines) : lines[k] = ImportLine(x)}) = 1
    /\ \A j, k \in ImportLineIndices(lines) : j < k => StrLess(lines[j], lines[k])

\* C7 as stated: in the composed text every import target of the main snippet
\* or of a lemma snippet is on exactly one line "import X", and the import
\* lines are in sorted order
C7_EachTargetOnOneLine ==
    op = "create_statement_with_lemmas" =>
        OnOneLineEach(splitlines(ret[1]), AllTargets(args.original_statement, args.lemmas))

\* the lines of the declaration blocks the composer emits: the rewritten
\* lemma blocks it returns and the blocks of the main snippet
EmittedBlockLines(original_statement, final_lemma_codes) ==
    UNION {SeqToSet(splitlines(final_lemma_codes[k])) : k \in 1..Len(final_lemma_codes)}
    \cup UNION {SeqToSet(b) : b \in {DeclBlocks(original_statement)[k].lines :
                                       k \in 1..Len(DeclBlocks(original_statement))}}

\* lines begins with one line "import X" for every target of targets, in
\* sorted order, followed by an empty line
HeaderOf(lines, targets) ==
    /\ Len(lines) > Cardinality(targets)
    /\ {lines[k] : k \in 1..Cardinality(targets)} = {ImportLine(x) : x \in targets}
    /\ \A j, k \in 1..Cardinality(targets) : j < k => StrLess(lines[j], lines[k])
    /\ lines[Cardinality(targets) + 1] = <<>>

\* lines begins with the header of targets, and its later import lines are
\* among the lines emitted
HeaderThenCopies(lines, targets, emitted) ==
    /\ HeaderOf(lines, targets)
    /\ \A k \in ImportLineIndices(lines) :
          k > Cardinality(targets) => lines[k] \in emitted

\* C7 as the code has it: the composed text begins with exactly one line
\* "import X" for every import target of the main snippet or of a lemma
\* snippet, in sorted order, followed by an empty line; any later import line
\* is a line of a declaration block the composer copied
C7_HeaderUnion ==
    op = "create_statement_with_lemmas" =>
        HeaderThenCopies(splitlines(ret[1]),
                         AllTargets(args.original_statement, args.lemmas),
                         EmittedBlockLines(args.original_statement, ret[2]))

\* the main snippet imports Mathlib, the one lemma snippet imports Mathlib and
\* Aesop, and the composed text begins with import Aesop, import Mathlib
C7_Witness ==
    /\ op = "create_statement_with_lemmas"
    /\ args.original_statement = S_import_theorem
    /\ args.lemmas = <<S_imports_lemma>>
    /\ splitlines(ret[1])[1] = ImportLine(<<"A", "e", "s", "o", "p">>)
    /\ splitlines(ret[1])[2] = ImportLine(<<"M", "a", "t", "h", "l", "i", "b">>)
    /\ ImportLineIndices(splitlines(ret[1])) = {1, 2}

\* the block text with a leading "theorem " keyword turned into "lemma " and
\* every other character kept
LeadingAsLemma(raw) ==
    IF startswith(raw, KW_theorem \o <<" ">>)
    THEN KW_lemma \o SubSeq(raw, Len(KW_theorem) + 1, Len(raw))
    ELSE raw

\* the declaration blocks of the lemma snippets, in input order, each with
\* only its leading keyword rewritten
LeadingRewritten(lemmas) ==
    Flatten([k \in 1..Len(lemmas) |->
                [j \in 1..Len(DeclBlocks(lemmas[k])) |->
                    LeadingAsLemma(join(<<NL>>, DeclBlocks(lemmas[k])[j].lines))]])

\* C12: the composer emits each declaration block of a lemma snippet with
\* only its leading "theorem " keyword rewritten to "lemma " and every other
\* character preserved; a block that starts with lemma is emitted unchanged
C12_OnlyLeadingKeywordRewritten ==
    op = "create_statement_with_lemmas" =>
        /\ ret[2] = LeadingRewritten(args.lemmas)
        /\ \A k \in 1..Len(LeadingRewritten(args.lemmas)) :
              contains(ret[1], LeadingRewritten(args.lemmas)[k] \o <<NL, NL>>)

(***************************************************************************)
(* Properties of the composed layout and of the headers                    *)
(***************************************************************************)
NextLayout ==
    \/ op = "none" /\ \E original_statement \in LayoutSnippets, lemmas \in LayoutLemmaLists :
                         CreateStatementWithLemmas(original_statement, lemmas)
    \/ op = "none" /\ \E code \in LayoutSnippets : Construct(code)
    \/ op = "__init__" /\ ExtractHeaders

SpecLayout == Init /\ [][NextLayout]_vars

\* the elements of the set S of str in ascending order
Ascending(S) ==
    [i \in 1..Cardinality(S) |->
        CHOOSE x \in S : Cardinality({y \in S : StrLess(y, x)}) = i - 1]

\* the normalized lines of the text whose first token is key
LinesWithKey(code, key) ==
    {l \in SeqToSet(strip_comments_and_blank_lines(code)) : split(l)[1] = key}

\* the set_option lines of the text
OptionLines(code) == {strip(l) : l \in LinesWithKey(code, KW_set_option)}

\* the namespaces the text opens: the tokens that follow open, scoped excepted
OpenedNamespaces(code) ==
    UNION {SeqToSet(Tail(split(l))) : l \in LinesWithKey(code, KW_open)} \ {KW_scoped}

\* the "other" code of the text: empty when it has none
OtherTexts(code) == {extract_other(strip_comments_and_blank_lines(code))} \ {<<>>}

AllOptionLines(original_statement, lemmas) ==
    OptionLines(original_statement) \cup UNION {OptionLines(lemmas[k]) : k \in 1..Len(lemmas)}

AllOpened(original_statement, lemmas) ==
    OpenedNamespaces(original_statement)
    \cup UNION {OpenedNamespaces(lemmas[k]) : k \in 1..Len(lemmas)}

AllOthers(original_statement, lemmas) ==
    OtherTexts(original_statement) \cup UNION {OtherTexts(lemmas[k]) : k \in 1..Len(lemmas)}

\* the lines of all the texts of the list, in order
LinesOfAll(texts) == Flatten([k \in 1..Len(texts) |-> splitlines(texts[k])])

\* the lines of the text that are not blank
NonBlankLines(text) == SelectSeq(splitlines(text), LAMBDA l : strip(l) # <<>>)

\* one line "open" followed by the namespaces in ascending order; no line
\* when there is none
OpenLine(opened) ==
    IF opened = {} THEN <<>> ELSE <<KW_open \o Emit(Ascending(opened), <<" ">>, <<>>)>>

\* the layout: import lines, set_option lines, the open line, the other code,
\* the lemma blocks, the main blocks
LayoutOf(targets, options, opened, others, lemma_codes, main_blocks) ==
    [i \in 1..Cardinality(targets) |-> ImportLine(Ascending(targets)[i])]
    \o Ascending(options)
    \o OpenLine(opened)
    \o LinesOfAll(Ascending(others))
    \o LinesOfAll(lemma_codes)
    \o Flatten([k \in 1..Len(main_blocks) |-> main_blocks[k].lines])

\* C13: the composed text is laid out as the sorted import lines, the sorted
\* set_option lines, one open line listing the sorted opened namespaces, the
\* sorted "other" code blocks, the lemma blocks in the order of the lemma
\* list, then the main declaration blocks in input order
C13_FixedLayout ==
    op = "create_statement_with_lemmas" =>
        NonBlankLines(ret[1]) =
            LayoutOf(AllTargets(args.original_statement, args.lemmas),
                     AllOptionLines(args.original_statement, args.lemmas),
                     AllOpened(args.original_statement, args.lemmas),
                     AllOthers(args.original_statement, args.lemmas),
                     ret[2], DeclBlocks(args.original_statement))

\* the lines of the text whose first token is open
OpenLinesOf(text) ==
    {l \in SeqToSet(splitlines(text)) : split(l) # <<>> /\ split(l)[1] = KW_open}

\* C14: the open list extract_headers returns never contains the token
\* scoped, and so the open line of the composed text never lists it
C14_NoScopedOpened ==
    /\ op = "extract_headers" => ~InList(KW_scoped, ret.open_list)
    /\ op = "create_statement_with_lemmas" =>
          \A l \in OpenLinesOf(ret[1]) : ~InList(KW_scoped, split(l))

\* the ways to give n lemma snippets again: in every order, and with one of
\* them given once more at either end; each is the list of the positions
\* the snippets had
Rearrangements(n) ==
    {q \in [1..n -> 1..n] : \A i, j \in 1..n : i # j => q[i] # q[j]}
    \cup {Append([k \in 1..n |-> k], j) : j \in 1..n}
    \cup {<<j>> \o [k \in 1..n |-> k] : j \in 1..n}

\* what the composer writes after the header part: the lemma blocks it
\* returns and the blocks of the main snippet
BlocksPart(final_lemma_codes, main_codes) ==
    <<NL>> \o Emit(final_lemma_codes, <<>>, <<NL, NL>>)
    \o <<NL>> \o Emit(main_codes, <<>>, <<NL, NL>>)

\* the header part of a composer result: its text before the blocks part
HeaderPart(result, main_codes) ==
    SubSeq(result[1], 1, Len(result[1]) - Len(BlocksPart(result[2], main_codes)))

\* the result is its header part followed by its blocks part
EndsWithBlocksPart(result, main_codes) ==
    result[1] = HeaderPart(result, main_codes) \o BlocksPart(result[2], main_codes)

\* the composer result for the parsed main snippet and the parsed lemma
\* snippets, has the header part that it has for every rearrangement of the
\* lemma snippets
SameHeaderRearranged(result, main, parts) ==
    /\ EndsWithBlocksPart(result, main.raws)
    /\ \A p \in Rearrangements(Len(parts)) :
          HeaderPart(ComposeParts(main, [k \in 1..Len(p) |-> parts[p[k]]]), main.raws)
              = HeaderPart(result, main.raws)

\* C28: the header part of the composed text (import lines, set_option
\* lines, the open line, the other code) is the same for every permutation
\* of the lemma list, and the same when a lemma snippet, with its header
\* lines and its other code, is given once more
C28_HeaderOrderIndependent ==
    op = "create_statement_with_lemmas" =>
        SameHeaderRearranged(ret, SnippetParts(args.original_statement),
                             [k \in 1..Len(args.lemmas) |-> SnippetParts(args.lemmas[k])])

\* the text of a composer result before its blocks part holds an open line
HeaderHasOpenLine(header_lines) ==
    \E k \in 1..Len(header_lines) : startswith(header_lines[k], KW_open \o <<" ">>)

\* two different lemma snippets with different header lines and other code,
\* and a header part that holds an open line
C28_Witness ==
    /\ op = "create_statement_with_lemmas"
    /\ Len(args.lemmas) = 2
    /\ SnippetParts(args.lemmas[1]).headers # SnippetParts(args.lemmas[2]).headers
    /\ SnippetParts(args.lemmas[1]).other # <<>>
    /\ SnippetParts(args.lemmas[2]).other # <<>>
    /\ SnippetParts(args.lemmas[1]).other # SnippetParts(args.lemmas[2]).other
    /\ HeaderHasOpenLine(splitlines(HeaderPart(ret, RawBlocks(DeclBlocks(args.original_statement)))))

(***************************************************************************)
(* Properties of the stub generator                                        *)
(***************************************************************************)
NextStub ==
    op = "none" /\ \E original_statement \in StubSnippets, max_sorry_cnt \in SorryCaps :
                      CreateProofWithSorries(original_statement, SubgoalKeys, max_sorry_cnt)

SpecStub == Init /\ [][NextStub]_vars

\* the blocks of a text for the keys, extracted without overlap
KeyBlocks(code, keys) ==
    extract_all_blocks(strip_comments_and_blank_lines(code), keys, FALSE, 0, 10000)

\* C5: extracting the blocks of the sub-goal keys without overlap from the
\* text create_proof_with_sorries returns gives as many blocks as extracting
\* them from its input
C5_StubKeepsBlockCount ==
    op = "create_proof_with_sorries" =>
        Len(KeyBlocks(ret, args.keys)) = Len(KeyBlocks(args.original_statement, args.keys))

\* the blocks create_proof_with_sorries selects: the blocks of the keys under
\* the default proof-line filter, the longest first, at most max_sorry_cnt
Selected(code, keys, max_sorry_cnt) ==
    SelectedBlocks(strip_comments_and_blank_lines(code), keys, max_sorry_cnt, 0, 100000)

\* the text of a block up to and including its ":=": the first one at depth
\* zero, the first one when none is at depth zero, nothing when there is none
UpToAssign(raw) ==
    IF Assigns(raw) = {} THEN <<>>
    ELSE IF ZeroDepthAssigns(raw) # {} THEN SubSeq(raw, 1, Least(ZeroDepthAssigns(raw), 0) + 1)
    ELSE SubSeq(raw, 1, Least(Assigns(raw), 0) + 1)

\* what the stubbed text must hold, in order: for every normalized line
\* outside the selected blocks the line itself, for every selected block the
\* lines of its text up to ":="
FrameItems(cl, selected) ==
    Flatten([i \in 1..Len(cl) |->
               IF \E k \in 1..Len(selected) : selected[k].start = i - 1
               THEN LET b == CHOOSE k \in 1..Len(selected) : selected[k].start = i - 1
                    IN  <<[block |-> TRUE,
                           prefix |-> splitlines(UpToAssign(join(<<NL>>, selected[b].lines)))]>>
               ELSE IF \E k \in 1..Len(selected) :
                          selected[k].start < i - 1 /\ i - 1 <= selected[k].end
               THEN <<>>
               ELSE <<[block |-> FALSE, line |-> cl[i]]>>])

\* the lines of prefix stand in out from line j on, the last of them as the
\* beginning of a line
PrefixAt(out, j, prefix) ==
    /\ j + Len(prefix) - 1 <= Len(out)
    /\ \A k \in 1..(Len(prefix) - 1) : out[j + k - 1] = prefix[k]
    /\ prefix # <<>> => startswith(out[j + Len(prefix) - 1], prefix[Len(prefix)])

\* the lines of out from line j on hold the items in order: a line item is
\* the line itself, a block item is at least one line, beginning with the
\* block's text up to ":=" and going on to where the next item stands
RECURSIVE Framed(_, _, _)
Framed(items, out, j) ==
    IF items = <<>> THEN j = Len(out) + 1
    ELSE IF ~items[1].block
    THEN j <= Len(out) /\ out[j] = items[1].line /\ Framed(Tail(items), out, j + 1)
    ELSE /\ j <= Len(out)
         /\ PrefixAt(out, j, items[1].prefix)
         /\ \E m \in (j + 1)..(Len(out) + 1) :
               m >= j + Len(items[1].prefix) /\ Framed(Tail(items), out, m)

\* C6: in the text create_proof_with_sorries returns, every selected block is
\* still there with its text up to and including its top-level ":=" as it
\* was, and every normalized line outside the selected blocks is unchanged
C6_StubFrame ==
    op = "create_proof_with_sorries" =>
        Framed(FrameItems(strip_comments_and_blank_lines(args.original_statement),
                          Selected(args.original_statement, args.keys, args.max_sorry_cnt)),
               splitlines(ret), 1)

\* where the ":=" that splits the block text stands: the first one at depth
\* zero, the first one when none is at depth zero, 0 when there is none
AssignOf(raw) ==
    IF Assigns(raw) = {} THEN 0
    ELSE IF ZeroDepthAssigns(raw) # {} THEN Least(ZeroDepthAssigns(raw), 0)
    ELSE Least(Assigns(raw), 0)

\* the block text with its proof, what follows the ":=" and the whitespace
\* after it, replaced by the stub; the text itself when it has no ":="
ProofReplaced(raw, stub) ==
    IF AssignOf(raw) = 0 THEN raw
    ELSE SubSeq(raw, 1, SkipWs(raw, AssignOf(raw) + 2) - 1) \o stub

\* the normalized lines with the lines of every block of chosen replaced by
\* the block with its proof stubbed
StubbedLines(cl, blocks, chosen) ==
    Flatten([i \in 1..Len(cl) |->
               IF \E k \in chosen : blocks[k].start = i - 1
               THEN LET b == blocks[CHOOSE k \in chosen : blocks[k].start = i - 1]
                    IN  splitlines(ProofReplaced(join(<<NL>>, b.lines), SorryFor(b.info)))
               ELSE IF \E k \in chosen : blocks[k].start < i - 1 /\ i - 1 <= blocks[k].end
               THEN <<>>
               ELSE <<cl[i]>>])

\* the sets of cnt blocks of largest span: no block left out is longer than
\* a block taken
LargestSpans(blocks, cnt) ==
    {chosen \in SUBSET (1..Len(blocks)) :
        /\ Cardinality(chosen) = (IF cnt < Len(blocks) THEN cnt ELSE Len(blocks))
        /\ \A k \in chosen, j \in (1..Len(blocks)) \ chosen :
              Span(blocks[j]) <= Span(blocks[k])}

\* out is the text of the lines cl with the proofs of min(cnt, n) blocks of
\* largest span stubbed and nothing else changed
StubbedLargest(out, cl, blocks, cnt) ==
    \E chosen \in LargestSpans(blocks, cnt) :
        out = join(<<NL>>, StubbedLines(cl, blocks, chosen))

\* C15: create_proof_with_sorries stubs exactly the min(cap, n) sub-goal
\* blocks of largest span: the proof of each is replaced by "by sorry" when
\* its proof_style is tactic and by "sorry" otherwise, and the blocks beyond
\* the cap keep their proof
C15_StubsLargestSpans ==
    op = "create_proof_with_sorries" =>
        StubbedLargest(ret, strip_comments_and_blank_lines(args.original_statement),
                       KeyBlocks(args.original_statement, args.keys), args.max_sorry_cnt)

(***************************************************************************)
(* Properties of the block classifier                                      *)
(***************************************************************************)
NextStyle ==
    \/ op = "none" /\ \E code \in StyleSnippets : Construct(code)
    \/ op = "__init__" /\ \E keys \in StyleKeySets, allow_overlap \in BOOLEAN :
                              ExtractAllBlocks(keys, allow_overlap, <<0, 10000>>)

SpecStyle == Init /\ [][NextStyle]_vars

\* the first token of the proof is by
StartsWithByToken(proof) == split(proof) # <<>> /\ split(proof)[1] = BY_TOKEN

\* C16: for a block whose key is not a bullet marker, proof_style is tactic
\* exactly when the proof starts with the token by; otherwise it is term
\* when the proof is not empty and unknown when it is empty
C16_StyleByToken ==
    op = "extract_all_blocks" =>
        \A k \in 1..Len(ret) :
            ~InList(ret[k].key, DOT_KEYS) =>
                ret[k].info.proof_style =
                    IF StartsWithByToken(ret[k].info.proof) THEN "tactic"
                    ELSE IF ret[k].info.proof # <<>> THEN "term"
                    ELSE "unknown"

(***************************************************************************)
(* Properties of the text tools                                            *)
(***************************************************************************)
NextTools ==
    \/ op = "none" /\ \E code \in ToolSnippets : AddNewlinesBeforeKeys(code, DeclKeys)
    \/ op = "none" /\ \E code \in ToolSnippets, prefixes \in PrefixLists :
                         RemoveImports(code, prefixes)

SpecTools == Init /\ [][NextTools]_vars

\* C17: the public operations return a result for every input text and
\* never raise on malformed input: no call of add_newlines_before_keys or of
\* remove_imports ends in an exception
C17_NeverRaises ==
    op \in {"add_newlines_before_keys", "remove_imports"} => ~Raised(ret)

(***************************************************************************)
(* Properties of the statement tracker                                     *)
(***************************************************************************)
NextTracker ==
    \/ op = "none" /\ \E text \in TrackedTexts : NewTracker(text)
    \/ op = "StatementTracker" /\ \E text \in TrackedTexts : WriteFile(text)
    \/ op = "write" /\ Check

SpecTracker == Init /\ [][NextTracker]_vars

\* the change types the list reports for the name, one per entry
ReportedFor(changes, name) ==
    [k \in {j \in 1..Len(changes) : changes[j].name = name} |-> changes[k].change_type]

\* what the list must report for a name of the two maps: added, removed or
\* modified, once; nothing when the statements are equal up to whitespace
ReportsAsClaimed(changes, initial, current, name) ==
    LET types == ReportedFor(changes, name)
    IN  IF name \notin DOMAIN initial
        THEN DOMAIN types # {} /\ \A k \in DOMAIN types : types[k] = "added"
        ELSE IF name \notin DOMAIN current
        THEN DOMAIN types # {} /\ \A k \in DOMAIN types : types[k] = "removed"
        ELSE IF split(initial[name]) # split(current[name])
        THEN DOMAIN types # {} /\ \A k \in DOMAIN types : types[k] = "modified"
        ELSE DOMAIN types = {}

\* the changes are those of the two maps, one entry per name
ClassifiedAsClaimed(changes, initial, current) ==
    /\ \A name \in DOMAIN initial \cup DOMAIN current :
          ReportsAsClaimed(changes, initial, current, name)
    /\ \A j, k \in 1..Len(changes) :
          /\ changes[j].name \in DOMAIN initial \cup DOMAIN current
          /\ j # k => changes[j].name # changes[k].name

\* C18: check reports a name absent from the initial map and present in the
\* current one as added, a name present initially and absent now as removed,
\* a name of both maps whose statements differ up to whitespace as modified,
\* and does not report a name of both maps whose statements are equal up to
\* whitespace
C18_ClassifiesByMaps ==
    op = "check" =>
        ClassifiedAsClaimed(ret, initial_snapshots, extract_statements_from_file(file_text))

(***************************************************************************)
(* Properties of the session loop                                          *)
(***************************************************************************)
NextSession ==
    \/ pc = "idle" /\ \E t \in Tasks : RunTask(t)
    \/ pc = "first_call" /\ \E marker \in Markers, changed \in BOOLEAN :
                               FirstCall(marker, changed)
    \/ pc = "loop" /\ \E outcome \in CheckOutcomes : LoopHead(outcome)
    \/ pc = "resend" /\ \E marker \in Markers, changed \in BOOLEAN :
                           ResendCall(marker, changed)
    \/ pc = "next_call" /\ \E marker \in Markers, changed \in BOOLEAN :
                              NextCall(marker, changed)
    \/ pc = "returned" /\ \E outcome \in CheckOutcomes : FinishTask(outcome)

SpecSession == Init /\ [][NextSession]_vars

\* the checker was run after the last agent round and found nothing that
\* counts as an error
CheckedAfterLastRound ==
    \E k \in 1..Len(checks) :
        /\ checks[k].after = Len(calls)
        /\ ~HasErrors(checks[k].outcome, task.allow_sorry)

\* C19: with check_after_complete, run_task reports success only if the
\* checker was run on the .lean files of the target after the last agent
\* round and reported no error (and no sorry warning unless allow_sorry)
C19_SuccessOnlyAfterCheck ==
    (pc = "done" /\ task.check_after_complete /\ task.lean_files /\ task_result.success)
        => CheckedAfterLastRound

\* C20: for max_rounds >= 1 the agent is run at most max_rounds times, the
\* round results are one per run and numbered 1, 2, ... in order, and the
\* rounds_used that run_claude_session returns is the number of runs
C20_AtMostMaxRounds ==
    (pc # "idle" /\ task.max_rounds >= 1) =>
        /\ Len(calls) <= task.max_rounds
        /\ Len(round_results) = Len(calls)
        /\ \A k \in 1..Len(round_results) : round_results[k].round_number = k
        /\ pc \in {"returned", "done"} => rounds = Len(calls)
        /\ pc = "done" => task_result.rounds_used = Len(calls)

\* a session of max_rounds >= 2 that used all its rounds, one of them the
\* prompt sent again after a failed verification
C20_Witness ==
    /\ pc = "done"
    /\ task.max_rounds >= 2
    /\ Len(calls) = task.max_rounds
    /\ \E k \in 1..Len(checks) :
          checks[k].after < Len(calls) /\ HasErrors(checks[k].outcome, task.allow_sorry)

\* the call that started the session call k belongs to: the last one, up to
\* k, that sent the prompt
SessionStart(k) == Greatest({j \in 1..k : calls[j] = "prompt"}, 1)

\* the two rounds before call k belong to one session and both ended with
\* LIMIT
TwoLimitsBefore(k) ==
    /\ k >= 3
    /\ round_results[k - 1].end_reason = "LIMIT"
    /\ round_results[k - 2].end_reason = "LIMIT"
    /\ SessionStart(k - 1) <= k - 2

\* C26: a call made when the last two rounds of the current session both
\* ended with LIMIT sends the prompt again as a new session: continue is
\* never sent to such a session, also when the session was started by the
\* re-send after a failed verification
C26_ResetAfterTwoLimits ==
    \A k \in 1..Len(calls) : TwoLimitsBefore(k) => calls[k] = "prompt"

\* the part of C26 that holds: sessions that were not started by the
\* re-send after a failed verification
ResetUnlessResent ==
    \A k \in 1..Len(calls) :
        (/\ TwoLimitsBefore(k)
         /\ ~\E c \in 1..Len(checks) : checks[c].after = SessionStart(k) - 1)
            => calls[k] = "prompt"

\* a round before the last one detected a statement change
ChangeBeforeLastRound ==
    \E k \in 1..(Len(round_results) - 1) : round_results[k].has_statement_changes

\* some round detected a statement change
ChangeDetected ==
    \E k \in 1..Len(round_results) : round_results[k].has_statement_changes

\* the session part of C27: with "error" the round that detects a change is
\* the last one and run_claude_session returns STATEMENT_CHANGED; with "warn"
\* it never returns STATEMENT_CHANGED
SessionEndsOnChange ==
    pc # "idle" =>
        IF task.on_statement_change = "error"
        THEN /\ ~ChangeBeforeLastRound
             /\ (pc = "returned" /\ ChangeDetected) => end_reason = "STATEMENT_CHANGED"
        ELSE end_reason # "STATEMENT_CHANGED"

\* C27: with on_statement_change = "error", once a round detects a statement
\* change no further call of the agent is made, the session returns
\* STATEMENT_CHANGED, and run_task reports end_reason STATEMENT_CHANGED and
\* success = false; with "warn" a change never ends the session
C27_StatementChangeEndsTask ==
    /\ SessionEndsOnChange
    /\ (pc = "done" /\ task.on_statement_change = "error" /\ ChangeDetected) =>
          /\ task_result.end_reason = "STATEMENT_CHANGED"
          /\ ~task_result.success

\* the session loop with every step taken that can be taken: the agent and
\* the checker return, and the interpreter goes on
SpecSessionFair == SpecSession /\ WF_vars(NextSession)

\* the verification finds nothing that counts as an error
Passes(outcome, allow_sorry) == outcome = "clean" \/ (allow_sorry /\ outcome = "sorry")

\* run_claude_session has returned
SessionEnded == pc \in {"returned", "done"}

\* a step of one loop iteration, from the loop head to the next loop head
\* or to the return, ends the session or raises the round counter by one
IterationEndsOrCounts ==
    pc = "loop" => (pc' = "returned" /\ rounds' = rounds) \/ rounds' = rounds + 1

\* at the loop head with COMPLETE before the round limit: the session ends
\* with COMPLETE when no callback is set, and when the callback passes: it
\* has no .lean file to check, or the checker run in this step passes
CompleteEndsSession ==
    (pc = "loop" /\ reason = "COMPLETE" /\ rounds < task.max_rounds) =>
        IF \/ ~task.check_after_complete
           \/ ~task.lean_files
           \/ /\ Len(checks') = Len(checks) + 1
              /\ Passes(checks'[Len(checks')].outcome, task.allow_sorry)
        THEN pc' = "returned" /\ end_reason' = "COMPLETE"
        ELSE pc' = "resend"

\* C29: run_claude_session terminates for every max_rounds and every
\* sequence of markers and verification outcomes; each loop iteration ends
\* the session or raises the round counter by one; a COMPLETE received
\* before the round limit ends the session when the verification callback
\* passes or none is set
C29_SessionTerminates ==
    /\ (pc = "first_call") ~> SessionEnded
    /\ [][IterationEndsOrCounts /\ CompleteEndsSession]_vars

\* a session that ended with COMPLETE before the round limit, on a
\* verification that passed, after an earlier one that failed
C29_Witness ==
    /\ pc = "returned"
    /\ end_reason = "COMPLETE"
    /\ rounds < task.max_rounds
    /\ Len(checks) >= 2
    /\ HasErrors(checks[1].outcome, task.allow_sorry)
    /\ checks[Len(checks)].after = Len(calls)
    /\ Passes(checks[Len(checks)].outcome, task.allow_sorry)

(***************************************************************************)
(* Properties of run_tasks                                                 *)
(***************************************************************************)
NextTasks ==
    \/ batch_pc = "idle" /\ \E ts \in TaskLists, par \in BOOLEAN, workers \in WorkerCounts :
                                RunTasks(ts, par, workers)
    \/ batch_pc = "sequential" /\ \E outcome \in RunOutcomes : RunNextTask(outcome)
    \/ StartWorker
    \/ batch_pc = "parallel" /\ \E idx \in DOMAIN futures, outcome \in RunOutcomes :
                                    FinishWorker(idx, outcome)
    \/ batch_pc = "parallel" /\ \E idx \in DOMAIN futures : Collect(idx)

SpecTasks == Init /\ [][NextTasks]_vars

\* results holds one result per task, each at the position of its task
OnePerTaskInOrder ==
    /\ Len(results) = Len(tasks)
    /\ \A k \in 1..Len(tasks) : results[k] # NoneVal /\ results[k].task_id = tasks[k]

\* C21: every call of run_tasks ends by returning one result per task, in
\* the order of the task list, in sequential and in parallel mode; in
\* parallel mode a run that raised has the ERROR result at its own position
C21_OneResultPerTask ==
    batch_pc \in {"returned", "raised"} =>
        /\ batch_pc = "returned"
        /\ OnePerTaskInOrder
        /\ \A k \in DOMAIN futures :
              futures[k].outcome = RAISES => results[k].end_reason = "ERROR"

\* the part of C21 that holds: what run_tasks returns, and every finished
\* call of the parallel branch
ReturnedOnePerTask ==
    (batch_pc = "returned" \/ (batch_pc = "raised" /\ futures # <<>>)) =>
        /\ batch_pc = "returned"
        /\ OnePerTaskInOrder
        /\ \A k \in DOMAIN futures :
              futures[k].outcome = RAISES => results[k].end_reason = "ERROR"

(***************************************************************************)
(* Properties of the block scanner                                         *)
(***************************************************************************)
NextScan ==
    \/ op = "none" /\ \E code \in ScanSnippets : Construct(code)
    \/ op = "__init__" /\ \E start_line_index \in 0..Len(cleaned_lines),
                              keys \in ScanKeySets :
                              GetBlockFromLid(start_line_index, keys)
    \/ op = "__init__" /\ \E allow_overlap \in BOOLEAN :
                              ExtractAllBlocks(AllKeys, allow_overlap, <<0, 10000>>)

SpecScan == Init /\ [][NextScan]_vars

\* the number of spaces a line begins with
LeadingSpaces(line) == Least({k \in 1..Len(line) : line[k] # " "}, Len(line) + 1) - 1

\* the first token of a line
FirstToken(line) == split(line)[1]

\* the closing bracket of an opening one
Closer(c) == IF c = "(" THEN ")" ELSE IF c = "{" THEN "}" ELSE "]"

\* positions i..j of text are a bracketed sub-expression: an opening bracket,
\* its closing bracket, and no bracket of that type in between
IsGroup(text, i, j) ==
    /\ text[i] \in {"(", "{", "["}
    /\ text[j] = Closer(text[i])
    /\ \A k \in (i + 1)..(j - 1) : text[k] # text[i] /\ text[k] # text[j]

\* the positions of text outside every bracketed sub-expression
OutsideGroups(text) ==
    {k \in 1..Len(text) :
        ~\E i \in 1..k : \E j \in k..Len(text) : i < j /\ IsGroup(text, i, j)}

\* a := is left in text once its bracketed sub-expressions are removed
AssignOutsideGroups(text) ==
    \E k \in 1..(Len(text) - 1) :
        /\ text[k] = ":" /\ text[k + 1] = "="
        /\ {k, k + 1} \subseteq OutsideGroups(text)

\* the line at position j (from 1) extends the block that starts at
\* position s with the key key: it is indented more than the start line, or
\* as much while the key is no bullet marker and the lines before it hold
\* no := outside brackets
ExtendsBlock(cl, s, j, key) ==
    \/ LeadingSpaces(cl[j]) > LeadingSpaces(cl[s])
    \/ /\ LeadingSpaces(cl[j]) = LeadingSpaces(cl[s])
       /\ key \notin {<<".">>, <<MIDDOT>>}
       /\ ~AssignOutsideGroups(join(<<NL>>, SubSeq(cl, s, j - 1)))

\* block is the block of the scan from position s: its lines are those
\* from s on that extend it, up to the first that does not
ScannedFrom(block, cl, s, key) ==
    /\ block # NoneVal
    /\ block.start = s - 1
    /\ block.end + 1 \in s..Len(cl)
    /\ block.lines = SubSeq(cl, s, block.end + 1)
    /\ \A j \in (s + 1)..(block.end + 1) : ExtendsBlock(cl, s, j, key)
    /\ block.end + 1 < Len(cl) => ~ExtendsBlock(cl, s, block.end + 2, key)

\* C22: get_block_from_lid returns no match when the first token of the
\* start line is not in the key set; otherwise a following line indented
\* more than the start line extends the block, one indented less ends it,
\* and one indented as much ends it when the key is a bullet marker or the
\* lines so far hold a := outside brackets, and is appended otherwise
C22_ScanRule ==
    (op = "get_block_from_lid" /\ args.start_line_index < Len(cleaned_lines)) =>
        IF ~InList(FirstToken(cleaned_lines[args.start_line_index + 1]), args.keys)
        THEN ret = NoneVal
        ELSE ScannedFrom(ret, cleaned_lines, args.start_line_index + 1,
                         FirstToken(cleaned_lines[args.start_line_index + 1]))

\* a scan over a signature whose := is inside brackets: the next line, at
\* the same indentation, is appended; it holds a := outside brackets, so
\* the line after it, at the same indentation again, ends the block
C22_Witness ==
    /\ op = "get_block_from_lid"
    /\ ret # NoneVal
    /\ ret.start = 0 /\ ret.end = 1
    /\ Len(cleaned_lines) = 3
    /\ contains(cleaned_lines[1], ASSIGN)
    /\ ~AssignOutsideGroups(cleaned_lines[1])
    /\ \A j \in 1..3 : LeadingSpaces(cleaned_lines[j]) = 0

\* block spans the normalized lines cl[start..end] (indices from 0)
BlockShape(block, cl) ==
    /\ block.start <= block.end
    /\ block.end < Len(cl)
    /\ Len(block.lines) = block.end - block.start + 1
    /\ block.lines = SubSeq(cl, block.start + 1, block.end + 1)
    /\ block.indent = LeadingSpaces(cl[block.start + 1])

\* C23: every block returned by get_block_from_lid or extract_all_blocks has
\* start <= end and end - start + 1 lines, which are the normalized lines at
\* start..end, and its indent is the indentation of the line at start
C23_BlockSpansItsLines ==
    /\ (op = "get_block_from_lid" /\ ret # NoneVal) => BlockShape(ret, cleaned_lines)
    /\ op = "extract_all_blocks" =>
          \A k \in 1..Len(ret) : BlockShape(ret[k], cleaned_lines)

\* a block of several lines that starts after the first line, with an
\* indented start line
C23_Witness ==
    /\ op = "get_block_from_lid"
    /\ ret # NoneVal
    /\ ret.start >= 1
    /\ ret.end > ret.start
    /\ ret.indent > 0

\* the lines of the proof after its first line that are not blank
LaterProofLines(proof) ==
    SelectSeq(Tail(splitlines(proof)), LAMBDA line : strip(line) # <<>>)

\* the number of whitespace characters a line begins with
LeadingWhitespace(line) == Len(line) - Len(lstrip(line))

\* the inner_indent of C24 for a proof in a block of indentation indent
ClaimedInnerIndent(proof, indent) ==
    IF proof = <<>> \/ LaterProofLines(proof) = <<>> THEN indent + 2
    ELSE IF LeadingWhitespace(LaterProofLines(proof)[1]) > 0
    THEN LeadingWhitespace(LaterProofLines(proof)[1])
    ELSE indent + 2

InnerIndentAsClaimed(block) ==
    /\ block.info.inner_indent >= 0
    /\ block.info.inner_indent = ClaimedInnerIndent(block.info.proof, block.indent)

\* C24: the inner_indent of every block is >= 0; it is the indentation of
\* the first non-blank line after the first line of the proof when that is
\* positive, and the indent of the block plus 2 when the proof has a single
\* line or that indentation is zero
C24_InnerIndent ==
    /\ (op = "get_block_from_lid" /\ ret # NoneVal) => InnerIndentAsClaimed(ret)
    /\ op = "extract_all_blocks" => \A k \in 1..Len(ret) : InnerIndentAsClaimed(ret[k])

\* a block whose proof goes on after its first line, at an indentation that
\* is not the default
C24_Witness ==
    /\ op = "get_block_from_lid"
    /\ ret # NoneVal
    /\ LaterProofLines(ret.info.proof) # <<>>
    /\ ret.info.inner_indent # ret.indent + 2

(***************************************************************************)
(* Properties of the padding of :=                                         *)
(***************************************************************************)
NextPad == op = "none" /\ \E code \in PadSnippets : Construct(code)

SpecPad == Init /\ [][NextPad]_vars

\* the positions of line at which a := begins
AssignsOfLine(line) ==
    {k \in 1..(Len(line) - 1) : line[k] = ":" /\ line[k + 1] = "="}

\* exactly one space before position k of line
OneSpaceBefore(line, k) ==
    /\ k >= 2 /\ line[k - 1] = " "
    /\ k >= 3 => ~IsSpace(line[k - 2])

\* exactly one space from position k of line on, or the end of the line
OneSpaceOrEndAt(line, k) ==
    \/ k > Len(line)
    \/ /\ line[k] = " "
       /\ k < Len(line)
       /\ ~IsSpace(line[k + 1])

\* every := of line that is not its first content has one space before it,
\* and every := has one space or the end of the line after it
PaddedAssigns(line) ==
    \A k \in AssignsOfLine(line) :
        /\ k > SkipWs(line, 1) => OneSpaceBefore(line, k)
        /\ OneSpaceOrEndAt(line, k + 2)

\* C25: after normalization every := that is not the first content of its
\* line is preceded by exactly one space and every := is followed by exactly
\* one space or by the end of the line, whatever spacing it had; and no
\* normalized line is empty, ends with whitespace or holds a -- comment
C25_AssignPadded ==
    op = "__init__" =>
        \A j \in 1..Len(cleaned_lines) :
            /\ PaddedAssigns(cleaned_lines[j])
            /\ cleaned_lines[j] # <<>>
            /\ rstrip(cleaned_lines[j]) = cleaned_lines[j]
            /\ ~contains(cleaned_lines[j], <<"-", "-">>)

\* the part of C25 that holds: no normalized line is empty, ends with
\* whitespace or holds a -- comment
NoEmptyTrailingOrComment ==
    op = "__init__" =>
        \A j \in 1..Len(cleaned_lines) :
            /\ strip(cleaned_lines[j]) # <<>>
            /\ rstrip(cleaned_lines[j]) = cleaned_lines[j]
            /\ ~contains(cleaned_lines[j], <<"-", "-">>)

=============================================================================
